---- MODULE Spec2Model ----
(***************************************************************************)
(* A model of the toolkit package (src/tools.go): the multipart upload     *)
(* pipeline (UploadFiles, UploadOneFile, CreateDirIfNotExist), the strict  *)
(* JSON reader (ReadJSON) and RandomString.  Strings are sequences of      *)
(* one-character strings, file contents are sequences of byte values.      *)
(***************************************************************************)
EXTENDS Integers, Sequences, FiniteSets, TLC

(***************************************************************************)
(* Bounds of the model.                                                    *)
(***************************************************************************)
\* the largest number of file parts of one multipart form
MaxParts == 2
\* the largest n RandomString is called with
MaxN == 3
\* the largest number of members of a JSON object of a request body
MaxMembers == 2
\* the largest MaxJSONPayloadSize set
MaxLimit == 22

(***************************************************************************)
(* Strings.                                                                *)
(***************************************************************************)
Lowers == <<"a","b","c","d","e","f","g","h","i","j","k","l","m",
            "n","o","p","q","r","s","t","u","v","w","x","y","z">>
Uppers == <<"A","B","C","D","E","F","G","H","I","J","K","L","M",
            "N","O","P","Q","R","S","T","U","V","W","X","Y","Z">>
Digits == <<"0","1","2","3","4","5","6","7","8","9">>

Range(f) == {f[i] : i \in DOMAIN f}

\* characters outside ASCII, named by their code points: KELVIN SIGN, GREEK
\* CAPITAL LETTER GAMMA and GREEK SMALL LETTER GAMMA
Kelvin     == "U+212A"
GammaUpper == "U+0393"
GammaLower == "U+03B3"
NonASCII   == {Kelvin, GammaUpper, GammaLower}

\* unicode.ToLower on the characters outside ASCII: the lower case of the
\* Kelvin sign is the ASCII letter k
LowerOfNonASCII ==
  [c \in NonASCII |-> CASE c = Kelvin     -> "k"
                        [] c = GammaUpper -> GammaLower
                        [] OTHER          -> c]

\* strings.ToLower on one character
UpperSet == Range(Uppers)
LowerOfUpper == [u \in UpperSet |-> Lowers[CHOOSE i \in DOMAIN Uppers : Uppers[i] = u]]
ToLowerCh(c) ==
  IF c \in UpperSet THEN LowerOfUpper[c]
  ELSE IF c \in NonASCII THEN LowerOfNonASCII[c]
  ELSE c

\* strings.ToLower
ToLower(s) == [i \in DOMAIN s |-> ToLowerCh(s[i])]

\* strings.EqualFold (on ASCII strings: equal after case folding)
EqualFold(a, b) == ToLower(a) = ToLower(b)

(***************************************************************************)
(* Characters.  A string is a sequence of characters.  An ASCII character  *)
(* that can be written stands for itself, another byte below 0x80 is named *)
(* by its value ("0x00" .. "0x1F", "0x60", "0x7F"), one outside ASCII by   *)
(* its code point ("U+212A"), and "0xFF" is a byte that is not valid       *)
(* UTF-8.                                                                  *)
(***************************************************************************)
\* the 128 ASCII characters in the order of their codes
ASCIIChars ==
  <<"0x00", "0x01", "0x02", "0x03", "0x04", "0x05", "0x06", "0x07",
    "0x08", "\t",   "\n",   "0x0B", "\f",   "\r",   "0x0E", "0x0F",
    "0x10", "0x11", "0x12", "0x13", "0x14", "0x15", "0x16", "0x17",
    "0x18", "0x19", "0x1A", "0x1B", "0x1C", "0x1D", "0x1E", "0x1F",
    " ", "!", "\"", "#", "$", "%", "&", "'", "(", ")", "*", "+", ",", "-",
    ".", "/", "0", "1", "2", "3", "4", "5", "6", "7", "8", "9", ":", ";",
    "<", "=", ">", "?", "@",
    "A", "B", "C", "D", "E", "F", "G", "H", "I", "J", "K", "L", "M",
    "N", "O", "P", "Q", "R", "S", "T", "U", "V", "W", "X", "Y", "Z",
    "[", "\\", "]", "^", "_", "0x60",
    "a", "b", "c", "d", "e", "f", "g", "h", "i", "j", "k", "l", "m",
    "n", "o", "p", "q", "r", "s", "t", "u", "v", "w", "x", "y", "z",
    "{", "|", "}", "~", "0x7F">>

\* the code of an ASCII character
CodeOf(c) == (CHOOSE i \in DOMAIN ASCIIChars : ASCIIChars[i] = c) - 1

\* the bytes below 0x20
ControlBytes == {ASCIIChars[i] : i \in 1..32}

\* a byte that is not valid UTF-8, and the character U+FFFD that
\* encoding/json puts in its place
InvalidByte == "0xFF"
Replacement == "U+FFFD"

HexLower == <<"0","1","2","3","4","5","6","7","8","9","a","b","c","d","e","f">>
HexUpper == <<"0","1","2","3","4","5","6","7","8","9","A","B","C","D","E","F">>

\* a hexadecimal digit of either case, and its value
IsHex(c) == \E i \in DOMAIN HexLower : c \in {HexLower[i], HexUpper[i]}
HexVal(c) == (CHOOSE i \in DOMAIN HexLower : c \in {HexLower[i], HexUpper[i]}) - 1

\* the name of the character with code point v
RECURSIVE HexName(_)
HexName(v) ==
  IF v < 16 THEN HexUpper[v + 1]
  ELSE HexName(v \div 16) \o HexUpper[(v % 16) + 1]
RuneChar(v) ==
  IF v < 128 THEN ASCIIChars[v + 1]
  ELSE "U+" \o (IF v < 256 THEN "00" ELSE IF v < 4096 THEN "0" ELSE "")
            \o HexName(v)

\* regexp ReplaceAllString for a pattern [^keep]+ : every maximal run of
\* characters outside keep becomes one copy of rep
RECURSIVE ReplaceRuns(_, _, _)
ReplaceRuns(s, keep, rep) ==
  IF s = <<>> THEN <<>>
  ELSE IF Head(s) \in keep
    THEN <<Head(s)>> \o ReplaceRuns(Tail(s), keep, rep)
    ELSE LET rest == ReplaceRuns(Tail(s), keep, rep)
         IN  IF Len(s) > 1 /\ s[2] \notin keep
               THEN rest              \* inside a run: its replacement is emitted at its end
               ELSE rep \o rest

\* strings.Trim(s, c) for a one-character cutset
RECURSIVE TrimLeft(_, _)
TrimLeft(s, c) ==
  IF s # <<>> /\ Head(s) = c THEN TrimLeft(Tail(s), c) ELSE s

RECURSIVE TrimRight(_, _)
TrimRight(s, c) ==
  IF s # <<>> /\ s[Len(s)] = c THEN TrimRight(SubSeq(s, 1, Len(s) - 1), c) ELSE s

Trim(s, c) == TrimRight(TrimLeft(s, c), c)

\* filepath.Ext: the suffix starting at the last dot ("" when there is none);
\* a FileHeader's Filename is a base name and holds no path separator
Ext(path) ==
  LET dots == {i \in DOMAIN path : path[i] = "."}
  IN  IF dots = {} THEN <<>>
      ELSE SubSeq(path, CHOOSE i \in dots : \A j \in dots : j <= i, Len(path))

\* strings.TrimSuffix
TrimSuffix(s, suffix) ==
  IF Len(suffix) <= Len(s) /\ SubSeq(s, Len(s) - Len(suffix) + 1, Len(s)) = suffix
    THEN SubSeq(s, 1, Len(s) - Len(suffix))
    ELSE s


(***************************************************************************)
(* Content sniffing: net/http.DetectContentType as UploadFiles calls it.   *)
(***************************************************************************)
SniffLen == 512

MimePNG   == <<"i","m","a","g","e","/","p","n","g">>
MimeJPEG  == <<"i","m","a","g","e","/","j","p","e","g">>
MimeText  == <<"t","e","x","t","/","p","l","a","i","n",";"," ",
               "c","h","a","r","s","e","t","=","u","t","f","-","8">>
MimeOctet == <<"a","p","p","l","i","c","a","t","i","o","n","/",
               "o","c","t","e","t","-","s","t","r","e","a","m">>

SigPNG  == <<137, 80, 78, 71, 13, 10, 26, 10>>
SigJPEG == <<255, 216, 255>>

HasPrefix(data, sig) ==
  Len(sig) <= Len(data) /\ SubSeq(data, 1, Len(sig)) = sig

\* the bytes the sniffing algorithm skips as leading white space
IsSniffWS(b) == b \in {9, 10, 12, 13, 32}

\* a byte that makes the data binary for the text/plain signature
IsBinaryByte(b) ==
  b <= 8 \/ b = 11 \/ (14 <= b /\ b <= 26) \/ (28 <= b /\ b <= 31)

\* http.DetectContentType, with the signatures the model's byte values can
\* meet: the exact PNG and JPEG signatures, then text/plain, then the fallback
DetectContentType(data) ==
  LET d == IF Len(data) > SniffLen THEN SubSeq(data, 1, SniffLen) ELSE data
      nonWS == {i \in DOMAIN d : ~IsSniffWS(d[i])}
      firstNonWS == IF nonWS = {} THEN Len(d) + 1
                    ELSE CHOOSE i \in nonWS : \A j \in nonWS : i <= j
  IN  IF HasPrefix(d, SigPNG) THEN MimePNG
      ELSE IF HasPrefix(d, SigJPEG) THEN MimeJPEG
      ELSE IF \A i \in firstNonWS..Len(d) : ~IsBinaryByte(d[i]) THEN MimeText
      ELSE MimeOctet

\* buff := make([]byte, 512); inFile.Read(buff): the first bytes of the part,
\* the rest of the buffer left zero
SniffBuffer(content) ==
  [i \in 1..SniffLen |-> IF i <= Len(content) THEN content[i] ELSE 0]

(***************************************************************************)
(* The inputs of the upload model.                                         *)
(***************************************************************************)
\* original file names
NameSpace  == <<"a"," ","b",".","p">>
NameUnder  == <<"a","_","b",".","p">>
NameUpper  == <<"A"," ","b",".","p">>
FileNames  == {NameSpace, NameUnder, NameUpper}

\* part contents: empty, a PNG image shorter than the sniff window, and a
\* text longer than the sniff window
EmptyContent == <<>>
PNGContent   == SigPNG \o <<1>>
TextContent  == [i \in 1..(SniffLen + 1) |-> 104]
Contents     == {EmptyContent, PNGContent, TextContent}

\* the file headers of the model: an image under every name, one text and
\* one empty part
Headers ==
  [Filename : FileNames, content : {PNGContent}]
    \cup {[Filename |-> NameUnder, content |-> TextContent],
          [Filename |-> NameSpace, content |-> EmptyContent]}

FieldNames == {"f", "g"}

SeqUpTo(S, k) == UNION {[1..m -> S] : m \in 0..k}

\* r.MultipartForm.File: the file headers of each form field, in body order
Forms ==
  {fm \in [FieldNames -> SeqUpTo(Headers, MaxParts)] :
     Len(fm["f"]) + Len(fm["g"]) <= MaxParts}

\* the renamePattern arguments (variadic: none or one)
PatRetain == "noSpaces:retainCase"
PatLower  == "noSpaces:allLowercase"
PatRandom == "randomString"
RenamePatterns == {<<>>, <<PatRetain>>, <<PatLower>>, <<PatRandom>>, <<"other">>}

\* AllowedFileTypes settings
AllowedChoices == {<<>>, <<MimeJPEG, <<"I","M","A","G","E","/","P","N","G">> >>}

\* MaxFileSize settings: unset, and a small limit
SmallLimit == 4
DefaultMaxFileSize == 1024 * 1024 * 1024


(***************************************************************************)
(* The random source of RandomString.                                      *)
(***************************************************************************)
\* const randomStringSource: 26 + 26 + 10 + 4 characters
randomStringSource == Lowers \o Uppers \o Digits \o <<"_", "+", "-", "=">>

\* x % y for p, err := rand.Prime(rand.Reader, len(r)); x := p.Uint64():
\* p is a prime of len(r) = 66 bits whose two top bits are set, so that
\* x = p - 3 * 2^64; p is odd and a multiple of neither 3 nor 11, and
\* 3 * 2^64 is 0 modulo 2 and 3 and 4 modulo 11
PrimeIndexes ==
  {x \in 0..(Len(randomStringSource) - 1) :
     x % 2 = 1 /\ x % 3 # 0 /\ x % 11 # 7}

\* the length of the random file name of the pattern 'randomString'
RandomNameLen == 32

\* outcomes of RandomString(32) the upload model draws from: two of the
\* strings the source can produce
RandNames ==
  {[i \in 1..RandomNameLen |-> randomStringSource[x + 1]] : x \in {1, 5}}

(***************************************************************************)
(* State.                                                                  *)
(***************************************************************************)
VARIABLES
  \* the fields of Tools
  MaxFileSize, AllowedFileTypes, MaxJSONPayloadSize, AllowUnknownFields,
  \* the arguments of UploadFiles and the file system under uploadDir
  form, renamePattern, dirState, files,
  \* the call of UploadFiles: position, the file headers in the order the loop
  \* visits them, how many of them were processed, the value passed to
  \* ParseMultipartForm, the results, and the parts opened and files created
  pc, parts, done, parseLimit, uploadedFiles, err, opened, created,
  \* the call of UploadOneFile around it
  onePc, oneFile, oneErr,
  \* runtime.GOOS, and the parts whose source handle, and whose destination
  \* file, have been closed
  goos, closedIn, closedOut,
  \* the call of ReadJSON: the request body, what data points to, the position
  \* in the handler, the decoder's position in the body, the error returned
  \* and the Foo field of the struct decoded into
  body, target, jpc, scanp, jerr, decoded,
  \* the call of RandomString
  n, s, rpc, logged,
  \* the call of Slugify: its argument, its position and its results
  slugIn, slugPc, slug, slugErr,
  \* the http.ResponseWriter w: its header map, the status code written (0:
  \* none yet) and the body written
  respHeader, respCode, respBody,
  \* the call of WriteJSON: its arguments, the serialized data, its position
  \* and the error it returns
  wStatus, wData, wHeaders, wOut, wPc, wErr,
  \* the call of ErrorJSON: its arguments, its position and what it returns
  eErr, eStatus, ePc, eRet,
  \* the calls of CreateDirIfNotExist on one path: what is at each segment
  \* of the longest path, the number of segments of the path of the calls,
  \* the number of calls made and the error of the last one
  fs, dPath, dCalls, dErr,
  \* the call of PushJSONToRemoteService: whether data can be serialized,
  \* whether uri is well-formed, the clients supplied, the position, the
  \* client used, the response of the client ("nil": none), the state of its
  \* body, and the three results
  pData, pURI, pClients, pushPc, httpClient, response, bodyState,
  pResp, pCode, pErr,
  \* concurrent calls on one Tools value, one per goroutine: which method
  \* each goroutine calls, its position, whether it has written MaxFileSize,
  \* the argument it passed to ParseMultipartForm (-1: none yet), its local
  \* maxBytes (-1: none yet), and the MaxFileSize the calls started with
  cKind, cPc, cWrote, cParseArg, cMaxBytes, cInitSize,
  \* DownloadStaticFile: the file name and display name given, the path and
  \* the method of the request, what path.Join(pathName, fileName) names on
  \* the disk, and the position of the call
  dlName, dlDisplay, dlURL, dlMethod, dlTarget, dlPc

toolVars   == <<MaxFileSize, AllowedFileTypes, MaxJSONPayloadSize, AllowUnknownFields>>
uploadVars == <<form, renamePattern, dirState, files, pc, parts, done, parseLimit,
                uploadedFiles, err, opened, created, onePc, oneFile, oneErr,
                goos, closedIn, closedOut>>
jsonVars   == <<body, target, jpc, scanp, jerr, decoded>>
randVars   == <<n, s, rpc, logged>>
slugVars   == <<slugIn, slugPc, slug, slugErr>>
respVars   == <<respHeader, respCode, respBody>>
writeVars  == <<wStatus, wData, wHeaders, wOut, wPc, wErr>>
errorVars  == <<eErr, eStatus, ePc, eRet>>
dirVars    == <<fs, dPath, dCalls, dErr>>
pushVars   == <<pData, pURI, pClients, pushPc, httpClient, response, bodyState,
                pResp, pCode, pErr>>
concVars   == <<cKind, cPc, cWrote, cParseArg, cMaxBytes, cInitSize>>
downloadVars == <<dlName, dlDisplay, dlURL, dlMethod, dlTarget, dlPc>>
restVars   == <<slugVars, respVars, writeVars, errorVars, dirVars, pushVars,
                concVars,
                downloadVars>>
vars       == <<toolVars, uploadVars, jsonVars, randVars, restVars>>

\* what the actions of one part of the model leave alone of the other parts
slugFrame  == <<toolVars, uploadVars, jsonVars, randVars,
                respVars, writeVars, errorVars, dirVars, pushVars, concVars,
                downloadVars>>
writeFrame == <<toolVars, uploadVars, jsonVars, randVars, slugVars, dirVars,
                pushVars, concVars,
                downloadVars>>
dirFrame   == <<toolVars, uploadVars, jsonVars, randVars, slugVars,
                respVars, writeVars, errorVars, pushVars, concVars,
                downloadVars>>
pushFrame  == <<toolVars, uploadVars, jsonVars, randVars, slugVars,
                respVars, writeVars, errorVars, dirVars, concVars,
                downloadVars>>
concFrame  == <<uploadVars, jsonVars, randVars, slugVars,
                respVars, writeVars, errorVars, dirVars, pushVars,
                downloadVars>>
downloadFrame == <<toolVars, uploadVars, jsonVars, randVars, slugVars,
                   writeVars, errorVars, dirVars, pushVars, concVars>>

\* error values
NoErr       == ""
ErrTooLarge == "uploaded file exceeds allowed maximum file size"
ErrType     == "the uploaded file type is not permitted"
ErrEOF      == "EOF"
ErrMkdir    == "mkdir: permission denied"
ErrOpen     == "open: cannot open part"
ErrSeek     == "seek: failed"
ErrCreate   == "open: cannot create file"
ErrCopy     == "copy: failed"

\* a nil *UploadedFile
NilFile == [NewFileName |-> <<>>, OriginalFileName |-> <<>>, FileSize |-> -1]

\* no call of Slugify
SlugIdle == slugIn = <<>> /\ slugPc = "idle" /\ slug = <<>> /\ slugErr = NoErr

\* the header keys of the model and http.CanonicalHeaderKey on them
HeaderKeys ==
  {"Content-Type", "content-type", "Ice", "Content-Disposition",
   "Content-Length", "Accept-Ranges", "Last-Modified",
   "X-Content-Type-Options", "Location"}
CanonicalHeaderKey(k) == IF k = "content-type" THEN "Content-Type" ELSE k

\* a header map without entries: "" stands for no entry under the key
NoHeader == [k \in HeaderKeys |-> ""]

\* a nil error, and the error with the text txt
NilError == [nil |-> TRUE, text |-> <<>>]
ErrorOf(txt) == [nil |-> FALSE, text |-> txt]

\* a JSONResponse; Data is "nil", a number ("1") or a channel ("chan")
JSONResponse(e, m, d) == [Error |-> e, Message |-> m, Data |-> d]

\* a fresh response writer, and no call of WriteJSON or ErrorJSON
RespFresh == respHeader = NoHeader /\ respCode = 0 /\ respBody = <<>>
WriteIdle ==
  /\ wStatus = 0 /\ wData = JSONResponse(FALSE, <<>>, "nil") /\ wHeaders = <<>>
  /\ wOut = <<>> /\ wPc = "idle" /\ wErr = NoErr
ErrorIdle == eErr = NilError /\ eStatus = <<>> /\ ePc = "idle" /\ eRet = NoErr

\* no call of the operations that the specification at hand is not about
DirIdle == fs = <<>> /\ dPath = 0 /\ dCalls = 0 /\ dErr = NoErr
\* a nil *http.Response
NilResponse == [StatusCode |-> 0]

PushIdle ==
  /\ pData = "ok" /\ pURI = "ok" /\ pClients = <<>> /\ pushPc = "idle"
  /\ httpClient = "none" /\ response = NilResponse /\ bodyState = "none"
  /\ pResp = NilResponse /\ pCode = 0 /\ pErr = NoErr

ConcIdle ==
  /\ cKind = <<>> /\ cPc = <<>> /\ cWrote = <<>> /\ cParseArg = <<>>
  /\ cMaxBytes = <<>> /\ cInitSize = 0

\* nothing on the disk under a path
NoTarget == [kind |-> "absent", name |-> <<>>, content |-> <<>>, modtime |-> ""]

\* no call of DownloadStaticFile
DownloadIdle ==
  /\ dlName = <<>> /\ dlDisplay = <<>> /\ dlURL = <<>> /\ dlMethod = "GET"
  /\ dlTarget = NoTarget /\ dlPc = "idle"

RestIdle ==
  /\ SlugIdle /\ RespFresh /\ WriteIdle /\ ErrorIdle /\ DirIdle /\ PushIdle
  /\ ConcIdle /\ DownloadIdle

(***************************************************************************)
(* CreateDirIfNotExist (src/tools.go:202): os.Stat, and os.MkdirAll only   *)
(* when the path does not exist.  st is what os.Stat finds at the path:    *)
(* "absent" (ENOENT, which os.IsNotExist recognizes), "dir", "file", or    *)
(* "notdir" (ENOTDIR: a parent of the path is a regular file);  mkdirOK is *)
(* whether os.MkdirAll succeeds.                                           *)
(***************************************************************************)
CreateDirIfNotExist(st, mkdirOK) ==
  IF st = "absent"
    THEN IF mkdirOK THEN [st |-> "dir", err |-> NoErr]
                    ELSE [st |-> "absent", err |-> ErrMkdir]
    ELSE [st |-> st, err |-> NoErr]

(***************************************************************************)
(* UploadFiles, up to the loop (src/tools.go:59-82).                       *)
(***************************************************************************)
\* the orders in which  range r.MultipartForm.File  can visit the fields of
\* the form (a Go map: any order), each field's headers in body order
PartOrders(fm) ==
  {fm["f"] \o fm["g"], fm["g"] \o fm["f"]}

\* renameFile: the first renamePattern, or ""
RenameFile(pattern) == IF Len(pattern) > 0 THEN pattern[1] ELSE ""

UploadFilesBegin ==
  /\ pc = "start"
  /\ \E mkdirOK \in BOOLEAN, wellFormed \in BOOLEAN, order \in PartOrders(form) :
       LET limit == IF MaxFileSize = 0 THEN DefaultMaxFileSize ELSE MaxFileSize
           dir   == CreateDirIfNotExist(dirState, mkdirOK)
       IN  /\ MaxFileSize' = limit
           /\ dirState' = dir.st
           /\ IF dir.err # NoErr
                THEN /\ err' = dir.err
                     /\ pc' = "returned"
                     /\ UNCHANGED <<parts, parseLimit>>
                ELSE \* r.ParseMultipartForm(int64(t.MaxFileSize)): the argument is
                     \* maxMemory, what is kept in memory before parts spill to
                     \* temporary files; the parse fails on a malformed body only
                     /\ parseLimit' = limit
                     /\ IF wellFormed
                          THEN /\ parts' = order
                               /\ err' = NoErr
                               /\ pc' = "loop"
                          ELSE /\ err' = ErrTooLarge
                               /\ pc' = "returned"
                               /\ UNCHANGED parts
  /\ uploadedFiles' = <<>>
  /\ UNCHANGED <<AllowedFileTypes, MaxJSONPayloadSize, AllowUnknownFields>>
  /\ UNCHANGED <<form, renamePattern, files, done, opened, created,
                 onePc, oneFile, oneErr, goos, closedIn, closedOut>>
  /\ UNCHANGED <<jsonVars, randVars, restVars>>


(***************************************************************************)
(* The body of the loop of UploadFiles: the function literal called for    *)
(* each file header (src/tools.go:86-173).                                 *)
(***************************************************************************)
\* what can go wrong in the environment while one part is processed
Faults == {"none", "open", "seek", "create", "copy"}

\* the outcomes of t.RandomString(32), called for the pattern 'randomString'
\* only: a string, or the failure of rand.Prime, after which p is nil and
\* p.Uint64() is a nil dereference
RandFail == <<"!">>
NoRand   == <<>>
RandOutcomes(renameFile) ==
  IF renameFile = PatRandom THEN RandNames \cup {RandFail} ELSE {NoRand}

\* the type sniffed from each content (src/tools.go:96-105)
SniffedType == [c \in Contents |-> DetectContentType(SniffBuffer(c))]

\* IsAllowed with the types compared exactly instead of case-insensitively
IsAllowedExact(fileType, allowed) ==
  IF Len(allowed) > 0
    THEN \E i \in DOMAIN allowed : fileType = allowed[i]
    ELSE TRUE

\* src/tools.go:103-116
IsAllowed(fileType, allowed) ==
  IF Len(allowed) > 0
    THEN \E i \in DOMAIN allowed : EqualFold(fileType, allowed[i])
    ELSE TRUE

\* the characters the pattern [^a-zA-Z\-\d]+ keeps
RexKeep == Range(Lowers) \cup Range(Uppers) \cup Range(Digits) \cup {"-"}

\* src/tools.go:128-144; rnd is the result of t.RandomString(32)
NewFileName(Filename, renameFile, rnd) ==
  LET ext  == Ext(Filename)
      name == TrimSuffix(Filename, ext)
  IN  CASE renameFile = PatRetain ->
             Trim(ReplaceRuns(name, RexKeep, <<"_">>), "_") \o ext
        [] renameFile = PatLower ->
             Trim(ReplaceRuns(ToLower(name), RexKeep, <<"_">>), "_") \o ext
        [] renameFile = PatRandom -> rnd \o ext
        [] OTHER -> Filename

\* what one call of the function literal does: whether the part was opened,
\* whether the destination was created and with what content, and what it
\* returns (on every error it returns nil and the error)
Closure(hdr, renameFile, allowed, dir, fault, rnd) ==
  LET newName == NewFileName(hdr.Filename, renameFile, rnd)
      base == [opened |-> TRUE, created |-> FALSE, name |-> <<>>,
               written |-> <<>>, err |-> NoErr, panic |-> FALSE,
               rec |-> NilFile]
  IN  IF fault = "open"                                   \* hdr.Open() fails
        THEN [base EXCEPT !.opened = FALSE, !.err = ErrOpen]
      ELSE IF Len(hdr.content) = 0                        \* inFile.Read: io.EOF
        THEN [base EXCEPT !.err = ErrEOF]
      ELSE IF ~IsAllowed(SniffedType[hdr.content], allowed)
        THEN [base EXCEPT !.err = ErrType]
      ELSE IF fault = "seek"                              \* inFile.Seek fails
        THEN [base EXCEPT !.err = ErrSeek]
      ELSE IF rnd = RandFail                              \* rand.Prime fails
        THEN [base EXCEPT !.panic = TRUE]
      ELSE IF fault = "create" \/ dir # "dir" \/ newName = <<>>
        THEN [base EXCEPT !.err = ErrCreate]              \* os.Create fails
      ELSE IF fault = "copy"                              \* io.Copy fails
        THEN [base EXCEPT !.created = TRUE, !.name = newName, !.err = ErrCopy,
                          !.written = SubSeq(hdr.content, 1, Len(hdr.content) - 1)]
      ELSE [base EXCEPT !.created = TRUE, !.name = newName,
                        !.written = hdr.content,
                        !.rec = [NewFileName |-> newName,
                                 OriginalFileName |-> hdr.Filename,
                                 FileSize |-> Len(hdr.content)]]

\* src/tools.go:148-167: whether the destination file, once created, is
\* closed when the function literal returns the error e.  Off Windows the
\* only call is the deferred outFile.Close(), whose receiver is evaluated
\* by the defer statement, when outFile is still nil: it closes nothing.
\* On Windows the only call is the one after a copy that succeeded.
ClosesOut(os, e) == os = "windows" /\ e = NoErr

ProcessPart ==
  /\ pc = "loop"
  /\ done < Len(parts)
  /\ \E fault \in Faults, rnd \in RandOutcomes(RenameFile(renamePattern)) :
       LET k   == done + 1
           hdr == parts[k]
           r   == Closure(hdr, RenameFile(renamePattern), AllowedFileTypes,
                          dirState, fault, rnd)
       IN  /\ opened' = IF r.opened THEN Append(opened, k) ELSE opened
           /\ created' = IF r.created
                           THEN Append(created, [part |-> k, name |-> r.name])
                           ELSE created
           /\ files' = IF r.created THEN (r.name :> r.written) @@ files ELSE files
           \* src/tools.go:93: defer inFile.Close()
           /\ closedIn' = IF r.opened THEN Append(closedIn, k) ELSE closedIn
           /\ closedOut' = IF r.created /\ ClosesOut(goos, r.err)
                             THEN Append(closedOut, k) ELSE closedOut
           /\ IF r.panic
                THEN /\ pc' = "panic"
                     /\ UNCHANGED <<uploadedFiles, err, done>>
                ELSE \* uploadedFiles, err = func(uploadedFiles)...(uploadedFiles)
                     /\ uploadedFiles' = IF r.err = NoErr
                                           THEN Append(uploadedFiles, r.rec)
                                           ELSE <<>>
                     /\ err' = r.err
                     /\ IF r.err = NoErr
                          THEN pc' = "loop" /\ done' = k
                          ELSE pc' = "returned" /\ UNCHANGED done
  /\ UNCHANGED <<toolVars, form, renamePattern, dirState, parts, parseLimit,
                 onePc, oneFile, oneErr, goos, jsonVars, randVars, restVars>>

\* src/tools.go:182: every part was processed
UploadFilesReturn ==
  /\ pc = "loop"
  /\ done = Len(parts)
  /\ pc' = "returned"
  /\ UNCHANGED <<toolVars, form, renamePattern, dirState, files, parts, done,
                 parseLimit, uploadedFiles, err, opened, created, onePc, oneFile,
                 oneErr, goos, closedIn, closedOut, jsonVars, randVars, restVars>>

(***************************************************************************)
(* UploadOneFile (src/tools.go:186-199), from the return of its call of    *)
(* UploadFiles: files[0] of an empty slice is a run-time panic.            *)
(***************************************************************************)
UploadOneFile ==
  /\ pc = "returned"
  /\ onePc = "called"
  /\ IF err # NoErr
       THEN onePc' = "returned" /\ oneFile' = NilFile /\ oneErr' = err
       ELSE IF Len(uploadedFiles) = 0
         THEN onePc' = "panic" /\ UNCHANGED <<oneFile, oneErr>>
         ELSE onePc' = "returned" /\ oneFile' = uploadedFiles[1] /\ oneErr' = NoErr
  /\ UNCHANGED <<toolVars, form, renamePattern, dirState, files, pc, parts, done,
                 parseLimit, uploadedFiles, err, opened, created,
                 goos, closedIn, closedOut, jsonVars, randVars, restVars>>

(***************************************************************************)
(* The specification of the upload pipeline.                               *)
(***************************************************************************)
\* ReadJSON's nil error, and its errors: the format of the message with its
\* numeric or string argument.  The string argument is the name of the
\* field or the key itself: the message holds it as %q writes it (for the
\* unknown key after a space, what TrimPrefix leaves of encoding/json's
\* message), a writing the model does not spell out.
JSONErr(msg, num, str) == [msg |-> msg, num |-> num, str |-> str]
JSONNil == JSONErr("", 0, <<>>)

JSONIdle ==
  /\ body = <<>> /\ target = "struct" /\ jpc = "idle" /\ scanp = 0
  /\ jerr = JSONNil /\ decoded = <<>>

RandIdle ==
  /\ n = 0 /\ s = <<>> /\ rpc = "idle" /\ logged = 0

Init ==
  /\ MaxFileSize \in {0, SmallLimit}
  /\ AllowedFileTypes \in AllowedChoices
  /\ MaxJSONPayloadSize = 0
  /\ AllowUnknownFields = FALSE
  /\ form \in Forms
  /\ renamePattern \in RenamePatterns
  /\ dirState \in {"absent", "dir", "file"}
  /\ files = <<>>
  /\ pc = "start"
  /\ parts = <<>>
  /\ done = 0
  /\ parseLimit = 0
  /\ uploadedFiles = <<>>
  /\ err = NoErr
  /\ opened = <<>>
  /\ created = <<>>
  /\ onePc = "called"
  /\ oneFile = NilFile
  /\ oneErr = NoErr
  /\ goos = "linux"
  /\ closedIn = <<>>
  /\ closedOut = <<>>
  /\ JSONIdle
  /\ RandIdle
  /\ RestIdle

Next ==
  \/ UploadFilesBegin
  \/ ProcessPart
  \/ UploadFilesReturn
  \/ UploadOneFile

Spec == Init /\ [][Next]_vars


(***************************************************************************)
(* Properties of the upload pipeline.                                      *)
(***************************************************************************)
\* UploadFiles failed inside its loop, at part done + 1
FailedInLoop == pc = "returned" /\ err # NoErr /\ done < Len(parts)

\* the patterns that rename; every other value keeps the original name
KeepOriginal == RenameFile(renamePattern) \notin {PatRetain, PatLower, PatRandom}

\* the sum of the lengths of the file parts: a lower bound of the size of
\* the multipart body that carries them
RECURSIVE SumLen(_)
SumLen(hs) == IF hs = <<>> THEN 0 ELSE Len(Head(hs).content) + SumLen(Tail(hs))
BodySize == SumLen(form["f"]) + SumLen(form["g"])

\* C1: when UploadFiles fails at part k >= 2, after parts 1..k-1 were
\* persisted, it returns the error together with the k-1 records already
\* accumulated, in processing order.
C1_PartialResultsReturned ==
  (FailedInLoop /\ done >= 1) =>
     /\ Len(uploadedFiles) = done
     /\ \A i \in 1..done :
          uploadedFiles[i].OriginalFileName = parts[i].Filename

\* C2: UploadOneFile never faults by indexing an empty result list: with no
\* file part in the form it returns an error; and when it returns without an
\* error it returns the first record of UploadFiles' result.
C2_UploadOneFileGuarded ==
  /\ onePc # "panic"
  /\ (onePc = "returned" /\ Len(parts) = 0) => oneErr # NoErr
  /\ (onePc = "returned" /\ oneErr = NoErr) =>
        Len(uploadedFiles) > 0 /\ oneFile = uploadedFiles[1]

\* the type sniffed from a part matches no entry of a non-empty AllowedFileTypes
Rejected(hdr) ==
  /\ Len(AllowedFileTypes) > 0
  /\ \A i \in DOMAIN AllowedFileTypes :
       ~EqualFold(SniffedType[hdr.content], AllowedFileTypes[i])

\* C3: a part whose sniffed type matches no entry of a non-empty
\* AllowedFileTypes (case-insensitively) makes UploadFiles fail with the
\* type-not-permitted error, no destination is created for it and no later
\* part is opened or written; no other part is rejected, and with an empty
\* AllowedFileTypes none is.
C3_TypeRejection ==
  /\ err = ErrType =>
       /\ FailedInLoop
       /\ Rejected(parts[done + 1])
       /\ \A i \in DOMAIN created : created[i].part <= done
       /\ \A i \in DOMAIN opened : opened[i] <= done + 1
  /\ \A j \in DOMAIN opened :
       (Len(parts[opened[j]].content) > 0 /\ Rejected(parts[opened[j]])) =>
          /\ err = ErrType
          /\ pc = "returned"
          /\ opened[j] = done + 1

\* a second part is rejected after the first one, accepted by a match that
\* differs in case only, was written
C3_Witness ==
  /\ err = ErrType
  /\ done = 1
  /\ Len(created) = 1
  /\ AllowedFileTypes # <<>>

\* C4: a body larger than MaxFileSize (1 GiB when the field is 0) makes
\* UploadFiles fail with the size-exceeded error before any part is opened,
\* and no file is written.  (The claim's converse, that a body within the
\* limit never meets that error, fails too: every parse error is reported
\* as the size-exceeded error.)
C4_SizeLimitEnforced ==
  (pc \in {"loop", "returned", "panic"} /\ err # ErrMkdir /\ BodySize > parseLimit) =>
     err = ErrTooLarge /\ opened = <<>> /\ created = <<>>

\* C5: the stored names of the records of one call are pairwise distinct
\* unless the policy keeps the original names and two of these are equal; in
\* particular, under 'noSpaces:retainCase' and 'noSpaces:allLowercase' parts
\* with different original names get different stored names.
C5_StoredNamesDistinct ==
  RenameFile(renamePattern) \in {PatRetain, PatLower} =>
    \A i, j \in DOMAIN uploadedFiles :
      uploadedFiles[i].OriginalFileName # uploadedFiles[j].OriginalFileName =>
         uploadedFiles[i].NewFileName # uploadedFiles[j].NewFileName

\* C6: under the keep-original policy every part of length L >= 0 whose type
\* is permitted is stored: the call does not fail on the part's length, the
\* file uploadDir/originalName then holds the part's bytes, and the record's
\* FileSize is L.
C6_KeepOriginalStoresEveryLength ==
  KeepOriginal =>
    /\ err # ErrEOF
    /\ (pc = "loop" /\ done >= 1) =>
         /\ parts[done].Filename \in DOMAIN files
         /\ files[parts[done].Filename] = parts[done].content
         /\ uploadedFiles[done].FileSize = Len(parts[done].content)


(***************************************************************************)
(* RandomString (src/tools.go:31-43).                                      *)
(***************************************************************************)
UploadIdle ==
  /\ form = [f \in FieldNames |-> <<>>] /\ renamePattern = <<>>
  /\ dirState = "absent" /\ files = <<>>
  /\ pc = "idle" /\ parts = <<>> /\ done = 0 /\ parseLimit = 0
  /\ uploadedFiles = <<>> /\ err = NoErr /\ opened = <<>> /\ created = <<>>
  /\ onePc = "idle" /\ oneFile = NilFile /\ oneErr = NoErr
  /\ goos = "linux" /\ closedIn = <<>> /\ closedOut = <<>>

ToolsZero ==
  /\ MaxFileSize = 0 /\ AllowedFileTypes = <<>>
  /\ MaxJSONPayloadSize = 0 /\ AllowUnknownFields = FALSE

\* one iteration of the loop: rand.Prime either fails, which is logged and
\* leaves p nil, so that p.Uint64() is a nil dereference and the call
\* panics, or yields a prime and s[i] = r[x % y]
RandomStringStep ==
  /\ rpc = "loop"
  /\ Len(s) < n
  /\ \/ /\ logged' = logged + 1
        /\ rpc' = "panic"
        /\ UNCHANGED s
     \/ \E x \in PrimeIndexes :
          /\ s' = Append(s, randomStringSource[x + 1])
          /\ UNCHANGED <<rpc, logged>>
  /\ UNCHANGED <<n, toolVars, uploadVars, jsonVars, restVars>>

\* return string(s)
RandomStringReturn ==
  /\ rpc = "loop"
  /\ Len(s) = n
  /\ rpc' = "returned"
  /\ UNCHANGED <<n, s, logged, toolVars, uploadVars, jsonVars, restVars>>

InitRandom ==
  /\ n \in 0..MaxN
  /\ s = <<>>
  /\ rpc = "loop"
  /\ logged = 0
  /\ ToolsZero
  /\ UploadIdle
  /\ JSONIdle
  /\ RestIdle

NextRandom ==
  \/ RandomStringStep
  \/ RandomStringReturn

SpecRandom == InitRandom /\ [][NextRandom]_vars

\* C10: RandomString(n) never aborts and returns a string of exactly n
\* characters for every n >= 0: a failure of the randomness source is
\* logged and is not fatal.
C10_FullLengthNeverAborts ==
  /\ rpc # "panic"
  /\ rpc = "returned" => Len(s) = n


\* C11: the alphabet has 64 characters, and at every position of the output
\* every character of the alphabet can be the next one drawn (no character
\* of the alphabet is unreachable).
C11_WholeAlphabetReachable ==
  /\ Len(randomStringSource) = 64
  /\ (rpc = "loop" /\ Len(s) < n) =>
       \A j \in 0..(Len(randomStringSource) - 1) :
         ENABLED (RandomStringStep /\ s' = Append(s, randomStringSource[j + 1]))


(***************************************************************************)
(* The scanner of encoding/json, which json.Decoder.Decode (called at      *)
(* src/tools.go:259 and 297) runs over the bytes it reads.  A scanner      *)
(* state is the step function it is in, its stack of open objects and      *)
(* arrays, and the rest of the literal (true, false, null) it is reading.  *)
(* The scanner works on bytes: a character outside ASCII, which is several *)
(* bytes of the body, is one element here, so the offsets the model gives  *)
(* are those of the code for bodies of ASCII characters only.              *)
(***************************************************************************)
Quote == "\""
JSONSpace == {" ", "\t", "\r", "\n"}
DigitSet == Range(Digits)

ScanInit == [step |-> "BeginValue", stack |-> <<>>, lit |-> <<>>]

Res(st, op) == [st |-> st, op |-> op]
ScanError(st) == Res([st EXCEPT !.step = "Error"], "error")
Push(st, ps, step) ==
  [st EXCEPT !.step = step, !.stack = Append(st.stack, ps)]
SetTop(st, ps) ==
  [st EXCEPT !.stack = [st.stack EXCEPT ![Len(st.stack)] = ps]]
\* popParseState
Pop(st) ==
  LET stack == SubSeq(st.stack, 1, Len(st.stack) - 1)
  IN  [st EXCEPT !.stack = stack,
                 !.step = IF stack = <<>> THEN "EndTop" ELSE "EndValue"]

\* stateEndTop: scanEnd whatever the byte is
StateEndTop(st, c) ==
  Res([st EXCEPT !.step = IF c \in JSONSpace THEN "EndTop" ELSE "Error"], "end")

\* stateEndValue
StateEndValue(st, c) ==
  IF st.stack = <<>> THEN StateEndTop(st, c)
  ELSE IF c \in JSONSpace THEN Res([st EXCEPT !.step = "EndValue"], "skipSpace")
  ELSE LET ps == st.stack[Len(st.stack)]
       IN  CASE ps = "key" ->
                  IF c = ":"
                    THEN Res([SetTop(st, "value") EXCEPT !.step = "BeginValue"],
                             "objectKey")
                    ELSE ScanError(st)
             [] ps = "value" ->
                  IF c = ","
                    THEN Res([SetTop(st, "key") EXCEPT !.step = "BeginString"],
                             "objectValue")
                  ELSE IF c = "}" THEN Res(Pop(st), "endObject")
                  ELSE ScanError(st)
             [] OTHER ->
                  IF c = ","
                    THEN Res([st EXCEPT !.step = "BeginValue"], "arrayValue")
                  ELSE IF c = "]" THEN Res(Pop(st), "endArray")
                  ELSE ScanError(st)

\* stateBeginValue
StateBeginValue(st, c) ==
  IF c \in JSONSpace THEN Res(st, "skipSpace")
  ELSE IF c = "{" THEN Res(Push(st, "key", "BeginStringOrEmpty"), "beginObject")
  ELSE IF c = "[" THEN Res(Push(st, "array", "BeginValueOrEmpty"), "beginArray")
  ELSE IF c = Quote THEN Res([st EXCEPT !.step = "InString"], "beginLiteral")
  ELSE IF c = "-" THEN Res([st EXCEPT !.step = "Neg"], "beginLiteral")
  ELSE IF c = "0" THEN Res([st EXCEPT !.step = "0"], "beginLiteral")
  ELSE IF c = "t"
    THEN Res([st EXCEPT !.step = "Lit", !.lit = <<"r","u","e">>], "beginLiteral")
  ELSE IF c = "f"
    THEN Res([st EXCEPT !.step = "Lit", !.lit = <<"a","l","s","e">>], "beginLiteral")
  ELSE IF c = "n"
    THEN Res([st EXCEPT !.step = "Lit", !.lit = <<"u","l","l">>], "beginLiteral")
  ELSE IF c \in DigitSet THEN Res([st EXCEPT !.step = "1"], "beginLiteral")
  ELSE ScanError(st)

\* stateBeginString
StateBeginString(st, c) ==
  IF c \in JSONSpace THEN Res(st, "skipSpace")
  ELSE IF c = Quote THEN Res([st EXCEPT !.step = "InString"], "beginLiteral")
  ELSE ScanError(st)

\* state0 and stateE0, stateDot0: after the digits of a number
State0(st, c) ==
  IF c = "." THEN Res([st EXCEPT !.step = "Dot"], "continue")
  ELSE IF c \in {"e", "E"} THEN Res([st EXCEPT !.step = "E"], "continue")
  ELSE StateEndValue(st, c)

StateESign(st, c) ==
  IF c \in DigitSet THEN Res([st EXCEPT !.step = "E0"], "continue")
  ELSE ScanError(st)

\* scanner.step: one byte
Step(st, c) ==
  CASE st.step = "BeginValue" -> StateBeginValue(st, c)
    [] st.step = "BeginValueOrEmpty" ->
         IF c \in JSONSpace THEN Res(st, "skipSpace")
         ELSE IF c = "]" THEN StateEndValue(st, c)
         ELSE StateBeginValue(st, c)
    [] st.step = "BeginStringOrEmpty" ->
         IF c \in JSONSpace THEN Res(st, "skipSpace")
         ELSE IF c = "}" THEN StateEndValue(SetTop(st, "value"), c)
         ELSE StateBeginString(st, c)
    [] st.step = "BeginString" -> StateBeginString(st, c)
    [] st.step = "EndValue" -> StateEndValue(st, c)
    [] st.step = "EndTop" -> StateEndTop(st, c)
    [] st.step = "InString" ->
         IF c = Quote THEN Res([st EXCEPT !.step = "EndValue"], "continue")
         ELSE IF c = "\\" THEN Res([st EXCEPT !.step = "InStringEsc"], "continue")
         ELSE IF c \in ControlBytes THEN ScanError(st)
         ELSE Res(st, "continue")
    [] st.step = "InStringEsc" ->
         IF c \in {"b", "f", "n", "r", "t", "\\", "/", Quote}
           THEN Res([st EXCEPT !.step = "InString"], "continue")
         ELSE IF c = "u"
           THEN Res([st EXCEPT !.step = "InStringEscU"], "continue")
           ELSE ScanError(st)
    [] st.step = "InStringEscU" ->
         IF IsHex(c) THEN Res([st EXCEPT !.step = "InStringEscU1"], "continue")
         ELSE ScanError(st)
    [] st.step = "InStringEscU1" ->
         IF IsHex(c) THEN Res([st EXCEPT !.step = "InStringEscU12"], "continue")
         ELSE ScanError(st)
    [] st.step = "InStringEscU12" ->
         IF IsHex(c) THEN Res([st EXCEPT !.step = "InStringEscU123"], "continue")
         ELSE ScanError(st)
    [] st.step = "InStringEscU123" ->
         IF IsHex(c) THEN Res([st EXCEPT !.step = "InString"], "continue")
         ELSE ScanError(st)
    [] st.step = "Neg" ->
         IF c = "0" THEN Res([st EXCEPT !.step = "0"], "continue")
         ELSE IF c \in DigitSet THEN Res([st EXCEPT !.step = "1"], "continue")
         ELSE ScanError(st)
    [] st.step = "1" ->
         IF c \in DigitSet THEN Res(st, "continue") ELSE State0(st, c)
    [] st.step = "0" -> State0(st, c)
    [] st.step = "Dot" ->
         IF c \in DigitSet THEN Res([st EXCEPT !.step = "Dot0"], "continue")
         ELSE ScanError(st)
    [] st.step = "Dot0" ->
         IF c \in DigitSet THEN Res(st, "continue")
         ELSE IF c \in {"e", "E"} THEN Res([st EXCEPT !.step = "E"], "continue")
         ELSE StateEndValue(st, c)
    [] st.step = "E" ->
         IF c \in {"+", "-"} THEN Res([st EXCEPT !.step = "ESign"], "continue")
         ELSE StateESign(st, c)
    [] st.step = "ESign" -> StateESign(st, c)
    [] st.step = "E0" ->
         IF c \in DigitSet THEN Res(st, "continue") ELSE StateEndValue(st, c)
    [] st.step = "Lit" ->
         IF c = Head(st.lit)
           THEN IF Len(st.lit) = 1
                  THEN Res([st EXCEPT !.step = "EndValue", !.lit = <<>>], "continue")
                  ELSE Res([st EXCEPT !.lit = Tail(st.lit)], "continue")
           ELSE ScanError(st)
    [] OTHER -> ScanError(st)

AllSpace(cs) == \A i \in DOMAIN cs : cs[i] \in JSONSpace

(***************************************************************************)
(* Decoder.readValue: scan the bytes from position from on until a value   *)
(* ends.  data are the bytes the reader yields and readErr the error it    *)
(* yields after them: "EOF", or "tooLarge" from http.MaxBytesReader.       *)
(* The result is a value data[from..end], or an error.                     *)
(***************************************************************************)
RECURSIVE ScanFrom(_, _, _, _, _)
ScanFrom(data, from, readErr, i, st) ==
  IF i > Len(data)
    THEN \* the bytes read are used up
         IF readErr = "EOF"
           THEN IF Step(st, " ").op = "end"
                  THEN [kind |-> "value", end |-> Len(data), offset |-> 0]
                ELSE IF ~AllSpace(SubSeq(data, from, Len(data)))
                  THEN [kind |-> "unexpectedEOF", end |-> 0, offset |-> 0]
                  ELSE [kind |-> "EOF", end |-> 0, offset |-> 0]
           ELSE [kind |-> readErr, end |-> 0, offset |-> 0]
    ELSE LET r == Step(st, data[i])
         IN  CASE r.op = "end" ->
                    [kind |-> "value", end |-> i - 1, offset |-> 0]
               [] r.op \in {"endObject", "endArray"} /\ r.st.stack = <<>> ->
                    [kind |-> "value", end |-> i, offset |-> 0]
               [] r.op = "error" ->
                    [kind |-> "syntax", end |-> 0, offset |-> i]
               [] OTHER -> ScanFrom(data, from, readErr, i + 1, r.st)

ReadValue(data, from, readErr) == ScanFrom(data, from, readErr, from, ScanInit)


(***************************************************************************)
(* decodeState.unmarshal of one scanned value into the variable ReadJSON   *)
(* is given: as in the tests, a pointer to  struct{Foo string `json:"foo"`}*)
(* ("struct"), or a value that is no pointer ("nonptr").                   *)
(***************************************************************************)
RECURSIVE SkipWS(_, _)
SkipWS(t, i) ==
  IF i <= Len(t) /\ t[i] \in JSONSpace THEN SkipWS(t, i + 1) ELSE i

\* the index of the quote that closes the string opened at i
RECURSIVE StringClose(_, _)
StringClose(t, j) ==
  IF t[j] = Quote THEN j
  ELSE IF t[j] = "\\" THEN StringClose(t, j + 2)
  ELSE StringClose(t, j + 1)
StringEnd(t, i) == StringClose(t, i + 1)

\* the index of the bracket that closes the object or array whose inside
\* starts at j
RECURSIVE BracketEnd(_, _, _)
BracketEnd(t, j, depth) ==
  IF t[j] = Quote THEN BracketEnd(t, StringEnd(t, j) + 1, depth)
  ELSE IF t[j] \in {"{", "["} THEN BracketEnd(t, j + 1, depth + 1)
  ELSE IF t[j] \in {"}", "]"}
    THEN IF depth = 1 THEN j ELSE BracketEnd(t, j + 1, depth - 1)
  ELSE BracketEnd(t, j + 1, depth)

\* the index of the last character of the number or literal that starts at i
RECURSIVE ScalarEnd(_, _)
ScalarEnd(t, i) ==
  IF i < Len(t) /\ t[i + 1] \notin (JSONSpace \cup {",", "}", "]"})
    THEN ScalarEnd(t, i + 1)
    ELSE i

ValueKind(t, i) ==
  CASE t[i] = "{" -> "object"
    [] t[i] = "[" -> "array"
    [] t[i] = Quote -> "string"
    [] t[i] = "n" -> "null"
    [] t[i] \in {"t", "f"} -> "bool"
    [] OTHER -> "number"

ValueEnd(t, i) ==
  CASE t[i] \in {"{", "["} -> BracketEnd(t, i + 1, 1)
    [] t[i] = Quote -> StringEnd(t, i)
    [] OTHER -> ScalarEnd(t, i)

\* getu4: the value of the escape \uXXXX that starts at position at, or -1
GetU4(txt, at) ==
  IF at + 5 > Len(txt) \/ txt[at] # "\\" \/ txt[at + 1] # "u" THEN -1
  ELSE IF \E k \in 2..5 : ~IsHex(txt[at + k]) THEN -1
  ELSE HexVal(txt[at + 2]) * 4096 + HexVal(txt[at + 3]) * 256
       + HexVal(txt[at + 4]) * 16 + HexVal(txt[at + 5])

\* utf16.IsSurrogate
IsSurrogate(v) == v >= 55296 /\ v < 57344

\* utf16.DecodeRune: the code point of a surrogate pair, or that of U+FFFD
DecodeRune(r1, r2) ==
  IF r1 >= 55296 /\ r1 < 56320 /\ r2 >= 56320 /\ r2 < 57344
    THEN (r1 - 55296) * 1024 + (r2 - 56320) + 65536
    ELSE 65533

\* the character an escape of one letter stands for
EscapedChar(c) ==
  CASE c = "b" -> "0x08"
    [] c = "f" -> "\f"
    [] c = "n" -> "\n"
    [] c = "r" -> "\r"
    [] c = "t" -> "\t"
    [] OTHER   -> c

\* unquoteBytes: the string that the text between two quotes stands for.
\* Escapes are decoded, half a surrogate pair and a byte that is not valid
\* UTF-8 become U+FFFD.
RECURSIVE UnquoteFrom(_, _)
UnquoteFrom(txt, at) ==
  IF at > Len(txt) THEN <<>>
  ELSE IF txt[at] = "\\" /\ txt[at + 1] = "u"
    THEN LET rr == GetU4(txt, at)
         IN  IF IsSurrogate(rr)
               THEN IF DecodeRune(rr, GetU4(txt, at + 6)) # 65533
                      THEN <<RuneChar(DecodeRune(rr, GetU4(txt, at + 6)))>>
                           \o UnquoteFrom(txt, at + 12)
                      ELSE <<Replacement>> \o UnquoteFrom(txt, at + 6)
               ELSE <<RuneChar(rr)>> \o UnquoteFrom(txt, at + 6)
  ELSE IF txt[at] = "\\"
    THEN <<EscapedChar(txt[at + 1])>> \o UnquoteFrom(txt, at + 2)
  ELSE IF txt[at] = InvalidByte THEN <<Replacement>> \o UnquoteFrom(txt, at + 1)
  ELSE <<txt[at]>> \o UnquoteFrom(txt, at + 1)

UnquoteBytes(txt) == UnquoteFrom(txt, 1)

\* the members of the object whose text, after { or a comma, starts at i:
\* of each its key and, when the value is a string, the value, both unquoted
RECURSIVE Members(_, _)
Members(t, i) ==
  LET j == SkipWS(t, i)
  IN  IF t[j] = "}" THEN <<>>
      ELSE LET ke == StringEnd(t, j)
               v  == SkipWS(t, SkipWS(t, ke + 1) + 1)
               ve == ValueEnd(t, v)
               nx == SkipWS(t, ve + 1)
               m  == [key  |-> UnquoteBytes(SubSeq(t, j + 1, ke - 1)),
                      kind |-> ValueKind(t, v),
                      str  |-> IF t[v] = Quote
                                 THEN UnquoteBytes(SubSeq(t, v + 1, ve - 1))
                                 ELSE <<>>]
           IN  IF t[nx] = "," THEN <<m>> \o Members(t, nx + 1) ELSE <<m>>

\* the name of the only field of the struct
FieldFoo == <<"f", "o", "o">>

\* a key names the field when it equals its name, or does so ignoring case
IsField(key) == key = FieldFoo \/ EqualFold(key, FieldFoo)

UOK == [kind |-> "ok", str |-> <<>>, offset |-> 0]

\* the error decodeState.object saves for one member
MemberErr(m, disallow) ==
  IF IsField(m.key)
    THEN IF m.kind \in {"string", "null"} THEN UOK
         ELSE [kind |-> "type", str |-> FieldFoo, offset |-> 0]
    ELSE IF disallow THEN [kind |-> "unknown", str |-> m.key, offset |-> 0]
         ELSE UOK

\* d.savedError: the first error saved
RECURSIVE FirstErr(_, _)
FirstErr(ms, disallow) ==
  IF ms = <<>> THEN UOK
  ELSE IF MemberErr(Head(ms), disallow) # UOK THEN MemberErr(Head(ms), disallow)
  ELSE FirstErr(Tail(ms), disallow)

\* Foo after the members were stored in order
RECURSIVE FooAfter(_, _)
FooAfter(ms, foo) ==
  IF ms = <<>> THEN foo
  ELSE FooAfter(Tail(ms),
                IF IsField(Head(ms).key) /\ Head(ms).kind = "string"
                  THEN Head(ms).str ELSE foo)

\* decodeState.unmarshal: the error, and Foo afterwards
Unmarshal(text, tgt, disallow) ==
  LET v == SkipWS(text, 1)
      kind == ValueKind(text, v)
  IN  IF tgt # "struct"
        THEN [err |-> [kind |-> "invalidUnmarshal", str |-> <<>>, offset |-> 0],
              foo |-> <<>>]
      ELSE IF kind = "object"
        THEN [err |-> FirstErr(Members(text, v + 1), disallow),
              foo |-> FooAfter(Members(text, v + 1), <<>>)]
      ELSE IF kind = "null" THEN [err |-> UOK, foo |-> <<>>]
      ELSE IF kind = "array"
        THEN [err |-> [kind |-> "type", str |-> <<>>, offset |-> v], foo |-> <<>>]
      ELSE [err |-> [kind |-> "type", str |-> <<>>, offset |-> ValueEnd(text, v)],
            foo |-> <<>>]


(***************************************************************************)
(* ReadJSON (src/tools.go:244-303).                                        *)
(***************************************************************************)
DefaultMaxJSONPayloadSize == 1024 * 1024

\* maxBytes with the limit always the default, whatever MaxJSONPayloadSize is
MaxBytesDefaultOnly(size) == DefaultMaxJSONPayloadSize

\* src/tools.go:246-249
MaxBytes(size) == IF size # 0 THEN size ELSE DefaultMaxJSONPayloadSize

\* http.MaxBytesReader(w, r.Body, maxBytes): the bytes it yields, and the
\* error it yields after them
LimitedData(b, maxBytes) ==
  IF Len(b) > maxBytes THEN SubSeq(b, 1, maxBytes) ELSE b
LimitedErr(b, maxBytes) ==
  IF Len(b) > maxBytes THEN "tooLarge" ELSE "EOF"

\* decoded.DisallowUnknownFields() called when AllowUnknownFields is set
DisallowInverted(allow) == allow

\* src/tools.go:255-257
Disallow(allow) == ~allow

MsgSyntax     == "request body contains badly formed JSON: at character %d"
MsgTruncated  == "request body contains badly formed JSON at some point within"
MsgTypeField  == "request body contains incorrect JSON type for field %q"
MsgTypeOffset == "request body contains incorrect JSON type: at character %d"
MsgEmpty      == "request body cannot be empty"
MsgUnknown    == "request body contains unknown key: %s"
MsgSize       == "maximum allowed request body size is %d bytes"
MsgUnmarshal  == "error unmarshalling JSON request body: %s"
MsgSingle     == "response body must only contain one JSON value"

\* the switch of src/tools.go:265-294 on what the reading of the first value
\* returned
ReadError(rv, maxBytes) ==
  CASE rv.kind = "syntax"        -> JSONErr(MsgSyntax, rv.offset, <<>>)
    [] rv.kind = "unexpectedEOF" -> JSONErr(MsgTruncated, 0, <<>>)
    [] rv.kind = "EOF"           -> JSONErr(MsgEmpty, 0, <<>>)
    [] OTHER                     -> JSONErr(MsgSize, maxBytes, <<>>)

\* the same switch on what the unmarshalling of the first value returned
UnmarshalError(e) ==
  CASE e.kind = "type" /\ e.str # <<>> -> JSONErr(MsgTypeField, 0, e.str)
    [] e.kind = "type"                 -> JSONErr(MsgTypeOffset, e.offset, <<>>)
    [] e.kind = "unknown"              -> JSONErr(MsgUnknown, 0, e.str)
    [] OTHER                           -> JSONErr(MsgUnmarshal, 0, <<>>)

\* src/tools.go:245-295: decoded.Decode(data)
ReadJSONFirst ==
  /\ jpc = "called"
  /\ LET maxBytes == MaxBytes(MaxJSONPayloadSize)
         data == LimitedData(body, maxBytes)
         rv   == ReadValue(data, 1, LimitedErr(body, maxBytes))
         u    == Unmarshal(SubSeq(data, 1, rv.end), target,
                           Disallow(AllowUnknownFields))
     IN  IF rv.kind # "value"
           THEN /\ jerr' = ReadError(rv, maxBytes)
                /\ jpc' = "returned"
                /\ UNCHANGED <<scanp, decoded>>
           ELSE /\ scanp' = rv.end
                /\ decoded' = u.foo
                /\ IF u.err # UOK
                     THEN jerr' = UnmarshalError(u.err) /\ jpc' = "returned"
                     ELSE jpc' = "second" /\ UNCHANGED jerr
  /\ UNCHANGED <<body, target, toolVars, uploadVars, randVars, restVars>>

\* the second Decode returns io.EOF with nothing read
DecodeSecondAlwaysEOF(data, from, readErr) == "EOF"

\* what decoded.Decode(&struct{}{}) returns: io.EOF, another error of the
\* reading, or what unmarshalling a second value returns
DecodeSecond(data, from, readErr) ==
  LET rv == ReadValue(data, from, readErr)
  IN  IF rv.kind = "value" THEN "decoded" ELSE rv.kind

\* src/tools.go:296-302
ReadJSONSecond ==
  /\ jpc = "second"
  /\ LET maxBytes == MaxBytes(MaxJSONPayloadSize)
         e == DecodeSecond(LimitedData(body, maxBytes), scanp + 1,
                           LimitedErr(body, maxBytes))
     IN  jerr' = IF e # "EOF" THEN JSONErr(MsgSingle, 0, <<>>) ELSE JSONNil
  /\ jpc' = "returned"
  /\ UNCHANGED <<body, target, scanp, decoded, toolVars, uploadVars, randVars, restVars>>

(***************************************************************************)
(* The request bodies of the model: a first text, then a second one.       *)
(***************************************************************************)
Str(cs) == <<Quote>> \o cs \o <<Quote>>
KeyFoo == Str(FieldFoo)
KeyFOO == Str(<<"F", "O", "O">>)
KeyBar == Str(<<"b", "a", "r">>)
ValX   == Str(<<"x">>)
Val1   == <<"1">>

\* "key":value
MemberTexts == {k \o <<":">> \o v : k \in {KeyFoo, KeyFOO, KeyBar}, v \in {ValX, Val1}}

RECURSIVE Join(_)
Join(ms) ==
  IF ms = <<>> THEN <<>>
  ELSE IF Len(ms) = 1 THEN ms[1]
  ELSE ms[1] \o <<",">> \o Join(Tail(ms))

\* objects whose keys and values hold escapes:
\* {"foo":"a\"b"} (the key is foo), {"b\/r":"A"}, {"foo":"\n"}
EscapedTexts ==
  { <<"{">> \o Str(<<"f", "\\", "u", "0", "0", "6", "f", "o">>) \o <<":">>
           \o Str(<<"a", "\\", Quote, "b">>) \o <<"}">>,
    <<"{">> \o Str(<<"b", "\\", "/", "r">>) \o <<":">>
           \o Str(<<"\\", "u", "0", "0", "4", "1">>) \o <<"}">>,
    <<"{">> \o KeyFoo \o <<":">> \o Str(<<"\\", "n">>) \o <<"}">> }

\* the objects of at most MaxMembers members, and those with escapes
ObjectTexts ==
  {<<"{">> \o Join(ms) \o <<"}">> : ms \in SeqUpTo(MemberTexts, MaxMembers)}
    \cup EscapedTexts

\* no value, texts that are not JSON, a number, null, two objects cut short,
\* and strings with an escape that is none, with an escape \u cut short by a
\* letter, and with a raw control character
OtherTexts ==
  { <<>>, <<"x">>, <<"1">>, <<"n", "u", "l", "l">>,
    <<"{">> \o KeyFoo \o <<":", "}">>,
    <<"{">> \o KeyFoo \o <<":", Quote, "x">>,
    Str(<<"\\", "x">>),
    Str(<<"\\", "u", "0", "0", "g", "1">>),
    Str(<<"a", "0x01">>) }

\* what follows the first text
Trailers == { <<>>, <<" ">>, <<"{", "}">>, <<"x">> }

Bodies == {a \o b : a \in ObjectTexts \cup OtherTexts, b \in Trailers}

InitJSON ==
  /\ body \in Bodies
  /\ target \in {"struct", "nonptr"}
  /\ jpc = "called"
  /\ scanp = 0
  /\ jerr = JSONNil
  /\ decoded = <<>>
  /\ MaxFileSize = 0
  /\ AllowedFileTypes = <<>>
  /\ MaxJSONPayloadSize \in 0..MaxLimit
  /\ AllowUnknownFields \in BOOLEAN
  /\ UploadIdle
  /\ RandIdle
  /\ RestIdle

NextJSON ==
  \/ ReadJSONFirst
  \/ ReadJSONSecond

SpecJSON == InitJSON /\ [][NextJSON]_vars


(***************************************************************************)
(* Properties of ReadJSON.                                                 *)
(***************************************************************************)
\* the bodies that hold one JSON value and then nothing, or white space
OneValueBodies ==
  {a \o b : a \in ObjectTexts \cup {<<"1">>, <<"n", "u", "l", "l">>},
            b \in {<<>>, <<" ">>}}

\* the bodies that hold one object and then nothing, or white space
OneObjectBodies == {a \o b : a \in ObjectTexts, b \in {<<>>, <<" ">>}}

TooLong == Len(body) > MaxBytes(MaxJSONPayloadSize)

SizeError == JSONErr(MsgSize, MaxBytes(MaxJSONPayloadSize), <<>>)

\* the bodies of one value that suits the struct whatever AllowUnknownFields
\* is (an object giving the field strings only, or null), and then nothing,
\* or white space
SuitableMemberTexts == {k \o <<":">> \o ValX : k \in {KeyFoo, KeyFOO}}
SuitableBodies ==
  {a \o b : a \in {<<"{">> \o Join(ms) \o <<"}">> :
                     ms \in SeqUpTo(SuitableMemberTexts, MaxMembers)}
                  \cup {<<"n", "u", "l", "l">>},
            b \in {<<>>, <<" ">>}}

\* C7: a body longer than the effective limit fails with the size-limit
\* message naming the limit, also when its first complete JSON value ends
\* before the limit (here: a body of one suitable value and white space).
C7_OversizeGetsSizeMessage ==
  (jpc = "returned" /\ target = "struct" /\ TooLong /\ body \in SuitableBodies)
    => jerr = SizeError

\* what follows the first value in the body
Rest == SubSeq(body, scanp + 1, Len(body))

\* C8: nil is returned only for a body of exactly one value followed by
\* nothing but white space; and once the first value is decoded, anything
\* else that follows (more text that is not white space, or the read error
\* of a body over the limit) gives the one-value error, and nil otherwise.
C8_SingleValueOnly ==
  /\ [](jpc = "returned" /\ jerr = JSONNil
          => body \in OneValueBodies /\ ~TooLong)
  /\ [][jpc = "second" =>
          jerr' = IF TooLong \/ ~AllSpace(Rest)
                    THEN JSONErr(MsgSingle, 0, <<>>) ELSE JSONNil]_vars

\* C8 witness: the first value was decoded, only white space follows it, and
\* the body is over the limit: the one-value error is returned.
C8_Witness ==
  /\ jpc = "returned"
  /\ jerr = JSONErr(MsgSingle, 0, <<>>)
  /\ TooLong
  /\ AllSpace(Rest)

\* the members of the object the body holds
BodyMembers == Members(body, 2)

Absent(i) == ~IsField(BodyMembers[i].key)
Mismatch(i) == /\ IsField(BodyMembers[i].key)
               /\ BodyMembers[i].kind \notin {"string", "null"}

AbsentKeys == {BodyMembers[i].key : i \in {j \in DOMAIN BodyMembers : Absent(j)}}

\* one well-formed object within the limit, with a key the struct has not
HasAbsentKey ==
  /\ jpc = "returned"
  /\ target = "struct"
  /\ body \in OneObjectBodies
  /\ ~TooLong
  /\ AbsentKeys # {}

\* C9 as stated: for such a body the unknown-key error naming the key is
\* returned if and only if AllowUnknownFields is false, and nil is returned
\* when it is true.
C9_UnknownKeyIffDisallowed ==
  HasAbsentKey =>
    /\ (\E k \in AbsentKeys : jerr = JSONErr(MsgUnknown, 0, k))
         <=> ~AllowUnknownFields
    /\ AllowUnknownFields => jerr = JSONNil

\* the first member that is an absent key, and the first that gives the
\* field a value of another type than string; 0 when there is none
FirstAbsent ==
  IF \E i \in DOMAIN BodyMembers : Absent(i)
    THEN CHOOSE i \in DOMAIN BodyMembers :
           Absent(i) /\ \A j \in 1..(i - 1) : ~Absent(j)
    ELSE 0
FirstMismatch ==
  IF \E i \in DOMAIN BodyMembers : Mismatch(i)
    THEN CHOOSE i \in DOMAIN BodyMembers :
           Mismatch(i) /\ \A j \in 1..(i - 1) : ~Mismatch(j)
    ELSE 0

\* C9 amended: for such a body the unknown-key error is returned, naming the
\* first absent key, if and only if AllowUnknownFields is false and no value
\* of a wrong type for the field comes before that key; with
\* AllowUnknownFields true nil is returned if and only if no value for the
\* field has a wrong type, and the field-type error otherwise.
C9_UnknownKeyUnlessTypeErrorFirst ==
  HasAbsentKey =>
    /\ (\E k \in AbsentKeys : jerr = JSONErr(MsgUnknown, 0, k))
         <=> /\ ~AllowUnknownFields
             /\ (FirstMismatch = 0 \/ FirstAbsent < FirstMismatch)
    /\ jerr.msg = MsgUnknown => jerr.str = BodyMembers[FirstAbsent].key
    /\ AllowUnknownFields =>
         jerr = IF FirstMismatch = 0 THEN JSONNil
                ELSE JSONErr(MsgTypeField, 0, FieldFoo)

\* C9 witness: an object with an absent key and, after it, a number for the
\* field; unknown fields are not allowed and the absent key is reported.
C9_Witness ==
  /\ HasAbsentKey
  /\ ~AllowUnknownFields
  /\ FirstMismatch > FirstAbsent
  /\ jerr = JSONErr(MsgUnknown, 0, BodyMembers[FirstAbsent].key)


(***************************************************************************)
(* Slugify (src/tools.go:214-226).                                         *)
(***************************************************************************)
MaxSlugLen == 4

ErrSlugEmpty == "empty string not permitted"
ErrSlugZero  == "after replacing characters, slug length is zero"

\* the characters the pattern [^a-z\d]+ does not match
SlugKeep == Range(Lowers) \cup Range(Digits)

\* Slugify without the trimming of the dashes
SlugifyUntrimmed(str) ==
  IF str = <<>> THEN [slug |-> <<>>, err |-> ErrSlugEmpty]
  ELSE LET r == ReplaceRuns(ToLower(str), SlugKeep, <<"-">>)
       IN  IF Len(r) = 0 THEN [slug |-> <<>>, err |-> ErrSlugZero]
           ELSE [slug |-> r, err |-> NoErr]

\* src/tools.go:214-226
Slugify(str) ==
  IF str = <<>> THEN [slug |-> <<>>, err |-> ErrSlugEmpty]
  ELSE LET r == Trim(ReplaceRuns(ToLower(str), SlugKeep, <<"-">>), "-")
       IN  IF Len(r) = 0 THEN [slug |-> <<>>, err |-> ErrSlugZero]
           ELSE [slug |-> r, err |-> NoErr]

\* the characters of the arguments: letters of both cases, a digit, a dash,
\* a space, and characters outside ASCII
SlugChars == {"a", "B", "1", "-", " ", Kelvin, GammaUpper}

SlugCall ==
  /\ slugPc = "called"
  /\ slug' = Slugify(slugIn).slug
  /\ slugErr' = Slugify(slugIn).err
  /\ slugPc' = "returned"
  /\ UNCHANGED <<slugIn, slugFrame>>

InitSlug ==
  /\ slugIn \in SeqUpTo(SlugChars, MaxSlugLen)
  /\ slugPc = "called"
  /\ slug = <<>>
  /\ slugErr = NoErr
  /\ ToolsZero
  /\ UploadIdle
  /\ JSONIdle
  /\ RandIdle
  /\ RespFresh /\ WriteIdle /\ ErrorIdle /\ DirIdle /\ PushIdle /\ ConcIdle /\ DownloadIdle

NextSlug == SlugCall

SpecSlug == InitSlug /\ [][NextSlug]_vars

\* the reference: the words of the lower-cased argument (its maximal runs of
\* characters in [a-z0-9]), joined by single dashes.  Words(str, w) are the
\* words of str when w is the word read so far.
RECURSIVE Words(_, _)
Words(str, w) ==
  IF str = <<>> THEN (IF w = <<>> THEN <<>> ELSE <<w>>)
  ELSE IF Head(str) \in SlugKeep THEN Words(Tail(str), Append(w, Head(str)))
  ELSE (IF w = <<>> THEN <<>> ELSE <<w>>) \o Words(Tail(str), <<>>)

RECURSIVE JoinDash(_)
JoinDash(ws) ==
  IF ws = <<>> THEN <<>>
  ELSE IF Len(ws) = 1 THEN ws[1]
  ELSE ws[1] \o <<"-">> \o JoinDash(Tail(ws))

RefSlug(str) == JoinDash(Words(ToLower(str), <<>>))

NotDash(c) == c # "-"
InSlugKeep(c) == c \in SlugKeep
IsASCII(c) == c \notin NonASCII

\* the result is as the reference says and has the shape stated
SlugAsReference ==
  /\ slugErr # NoErr <=> RefSlug(slugIn) = <<>>
  /\ slugErr # NoErr => slug = <<>>
  /\ slugIn = <<>> => slugErr = ErrSlugEmpty
  /\ slugErr = NoErr =>
       /\ slug = RefSlug(slugIn)
       /\ slug # <<>>
       /\ \A i \in DOMAIN slug : slug[i] \in SlugKeep \cup {"-"}
       /\ slug[1] # "-" /\ slug[Len(slug)] # "-"
       /\ \A i \in 1..(Len(slug) - 1) : ~(slug[i] = "-" /\ slug[i + 1] = "-")

\* C12 as stated: Slugify fails for "", otherwise its result is the
\* reference, with the shape stated, and every character of the argument
\* outside ASCII is a separator only: the characters of the slug other than
\* the dashes are those that the ASCII characters of the argument give.
C12_NonASCIIOnlySeparates ==
  slugPc = "returned" =>
    /\ SlugAsReference
    /\ SelectSeq(slug, NotDash)
         = SelectSeq(ToLower(SelectSeq(slugIn, IsASCII)), InSlugKeep)

\* C12 amended: as stated, but a character is a separator only when its
\* lower case is outside [a-z0-9]; a character outside ASCII whose lower
\* case is an ASCII letter (the Kelvin sign) gives that letter to the slug.
C12_SeparatorsByLowerCase ==
  slugPc = "returned" =>
    /\ SlugAsReference
    /\ SelectSeq(slug, NotDash) = SelectSeq(ToLower(slugIn), InSlugKeep)

\* C12 witness: an argument with the Kelvin sign and a space, whose slug
\* holds the letter k and a dash.
C12_Witness ==
  /\ slugPc = "returned"
  /\ slugErr = NoErr
  /\ \E i \in DOMAIN slugIn : slugIn[i] = Kelvin
  /\ \E i \in DOMAIN slugIn : slugIn[i] = " "
  /\ \E i \in DOMAIN slug : slug[i] = "k"
  /\ \E i \in DOMAIN slug : slug[i] = "-"


(***************************************************************************)
(* WriteJSON (src/tools.go:306-326) and ErrorJSON (src/tools.go:329-342)   *)
(* on an http.ResponseWriter.                                              *)
(***************************************************************************)
MaxHeaderSets == 2
MaxStatusArgs == 2

\* the escape of U+FFFD that json.Marshal writes
EscReplacement == <<"\\", "u", "f", "f", "f", "d">>

\* the characters U+2028 and U+2029
LineSep == "U+2028"
ParaSep == "U+2029"

\* the escape \u00xx of an ASCII character
EscapeU00(c) ==
  <<"\\", "u", "0", "0", HexLower[(CodeOf(c) \div 16) + 1],
    HexLower[(CodeOf(c) % 16) + 1]>>

\* appendString of encoding/json with escapeHTML set, which is how
\* json.Marshal writes a string: the quote and the backslash get a
\* backslash, backspace, form feed, newline, carriage return and tab their
\* letter (backspace and form feed since Go 1.22, \u0008 and \u000c before),
\* the other bytes below 0x20 and < > & the escape \u00xx, a byte that is
\* not valid UTF-8 the escape of U+FFFD, U+2028 and U+2029 their escapes;
\* every other character is copied
EscapeChar(c) ==
  CASE c = Quote       -> <<"\\", Quote>>
    [] c = "\\"        -> <<"\\", "\\">>
    [] c = "0x08"      -> <<"\\", "b">>
    [] c = "\f"        -> <<"\\", "f">>
    [] c = "\n"        -> <<"\\", "n">>
    [] c = "\r"        -> <<"\\", "r">>
    [] c = "\t"        -> <<"\\", "t">>
    [] c \in ControlBytes \cup {"<", ">", "&"} -> EscapeU00(c)
    [] c = InvalidByte -> EscReplacement
    [] c = LineSep     -> <<"\\", "u", "2", "0", "2", "8">>
    [] c = ParaSep     -> <<"\\", "u", "2", "0", "2", "9">>
    [] OTHER           -> <<c>>

RECURSIVE EscapeString(_)
EscapeString(str) ==
  IF str = <<>> THEN <<>>
  ELSE EscapeChar(Head(str)) \o EscapeString(Tail(str))

TextTrue    == <<"t", "r", "u", "e">>
TextFalse   == <<"f", "a", "l", "s", "e">>
NameError   == <<"e", "r", "r", "o", "r">>
NameMessage == <<"m", "e", "s", "s", "a", "g", "e">>
NameData    == <<"d", "a", "t", "a">>

ErrUnsupported == "json: unsupported type: chan int"
ErrWrite       == "write: broken pipe"

\* json.Marshal of a JSONResponse (src/tools.go:237-241): the fields in the
\* order of the struct, data omitted when nil
Marshal(d) ==
  IF d.Data = "chan" THEN [out |-> <<>>, err |-> ErrUnsupported]
  ELSE [out |-> <<"{">> \o Str(NameError) \o <<":">>
                  \o (IF d.Error THEN TextTrue ELSE TextFalse)
                  \o <<",">> \o Str(NameMessage) \o <<":">>
                  \o Str(EscapeString(d.Message))
                  \o (IF d.Data = "nil" THEN <<>>
                      ELSE <<",">> \o Str(NameData) \o <<":">> \o <<d.Data>>)
                  \o <<"}">>,
        err |-> NoErr]

MimeJSON == "application/json"

\* http.Header.Set: the entry under the canonical form of the key
HeaderSet(h, k, v) == [h EXCEPT ![CanonicalHeaderKey(k)] = v]

\* http.Header.Get
HeaderGet(h, k) == h[CanonicalHeaderKey(k)]

\* the header set applied is the last one supplied
AppliedHeadersLast(hs) == IF Len(hs) > 0 THEN hs[Len(hs)] ELSE NoHeader

\* src/tools.go:312: the header set that is applied, if any
AppliedHeaders(hs) == IF Len(hs) > 0 THEN hs[1] ELSE NoHeader

\* src/tools.go:313-315: w.Header()[key] = value for every entry of the set
CopyHeaders(h, set) == [k \in HeaderKeys |-> IF set[k] # "" THEN set[k] ELSE h[k]]

\* the status codes WriteHeader accepts (it panics on the others)
ValidCode(c) == c >= 100 /\ c <= 999

\* src/tools.go:307-310
WriteMarshal ==
  /\ wPc = "marshal"
  /\ LET m == Marshal(wData)
     IN  IF m.err # NoErr
           THEN wErr' = m.err /\ wPc' = "returned" /\ UNCHANGED wOut
           ELSE wOut' = m.out /\ wPc' = "headers" /\ UNCHANGED wErr
  /\ UNCHANGED <<wStatus, wData, wHeaders, respVars, errorVars, writeFrame>>

\* src/tools.go:312-316
WriteCopyHeaders ==
  /\ wPc = "headers"
  /\ respHeader' = CopyHeaders(respHeader, AppliedHeaders(wHeaders))
  /\ wPc' = "contentType"
  /\ UNCHANGED <<respCode, respBody, wStatus, wData, wHeaders, wOut, wErr,
                 errorVars, writeFrame>>

\* src/tools.go:318
WriteContentType ==
  /\ wPc = "contentType"
  /\ respHeader' = HeaderSet(respHeader, "Content-Type", MimeJSON)
  /\ wPc' = "writeHeader"
  /\ UNCHANGED <<respCode, respBody, wStatus, wData, wHeaders, wOut, wErr,
                 errorVars, writeFrame>>

\* src/tools.go:319: w.WriteHeader(status)
WriteStatus ==
  /\ wPc = "writeHeader"
  /\ IF ValidCode(wStatus)
       THEN respCode' = wStatus /\ wPc' = "write"
       ELSE wPc' = "panic" /\ UNCHANGED respCode
  /\ UNCHANGED <<respHeader, respBody, wStatus, wData, wHeaders, wOut, wErr,
                 errorVars, writeFrame>>

\* src/tools.go:320-325: w.Write(out), which succeeds, or fails having
\* written some of the bytes (none, a part or all: the count that Write
\* returns is dropped)
WriteBody ==
  /\ wPc = "write"
  /\ \/ respBody' = respBody \o wOut /\ wErr' = NoErr
     \/ \E k \in 0..Len(wOut) :
          /\ respBody' = respBody \o SubSeq(wOut, 1, k)
          /\ wErr' = ErrWrite
  /\ wPc' = "returned"
  /\ UNCHANGED <<respHeader, respCode, wStatus, wData, wHeaders, wOut,
                 errorVars, writeFrame>>

WriteJSONSteps ==
  \/ WriteMarshal
  \/ WriteCopyHeaders
  \/ WriteContentType
  \/ WriteStatus
  \/ WriteBody

\* the header sets a caller supplies
HeaderSets ==
  { NoHeader,
    [NoHeader EXCEPT !["Ice"] = "CREAM"],
    [NoHeader EXCEPT !["Content-Type"] = "text/html"],
    [NoHeader EXCEPT !["content-type"] = "text/html", !["Ice"] = "SODA"] }

\* the status codes a caller supplies: none valid (0), and three valid ones
StatusCodes == {0, 200, 400, 503}

\* the error texts: plain, with a quote and a backslash, with a byte that is
\* not valid UTF-8, with the characters HTML gives a meaning, with control
\* characters, and with U+2028
ErrorTexts ==
  { <<"e">>, <<"e", Quote, "\\">>, <<InvalidByte>>, <<"a", "<", "b", ">", "&">>,
    <<"a", "\n", "0x08", "0x01", "\t">>, <<LineSep, "0x7F">> }

\* the data a caller of WriteJSON supplies
Payloads ==
  {JSONResponse(e, m, d) :
     e \in BOOLEAN, m \in {<<"e">>}, d \in {"nil", "1", "chan"}}

InitWrite ==
  /\ wStatus \in StatusCodes
  /\ wData \in Payloads
  /\ wHeaders \in SeqUpTo(HeaderSets, MaxHeaderSets)
  /\ wOut = <<>>
  /\ wPc = "marshal"
  /\ wErr = NoErr
  /\ RespFresh
  /\ ErrorIdle
  /\ SlugIdle
  /\ DirIdle
  /\ PushIdle
  /\ ConcIdle /\ DownloadIdle
  /\ ToolsZero
  /\ UploadIdle
  /\ JSONIdle
  /\ RandIdle

NextWrite == WriteJSONSteps

SpecWrite == InitWrite /\ [][NextWrite]_vars

DefaultStatus == 400

\* the status code is the last one supplied
StatusCodeLast(status) ==
  IF Len(status) > 0 THEN status[Len(status)] ELSE DefaultStatus

\* src/tools.go:331-335
StatusCode(status) == IF Len(status) > 0 THEN status[1] ELSE DefaultStatus

\* src/tools.go:330-341: the call of WriteJSON; err.Error() on a nil error
\* is a nil dereference
ErrorJSONCall ==
  /\ ePc = "called"
  /\ IF eErr.nil
       THEN ePc' = "panic" /\ UNCHANGED writeVars
       ELSE /\ wStatus' = StatusCode(eStatus)
            /\ wData' = JSONResponse(TRUE, eErr.text, "nil")
            /\ wHeaders' = <<>>
            /\ wPc' = "marshal"
            /\ ePc' = "writing"
            /\ UNCHANGED <<wOut, wErr>>
  /\ UNCHANGED <<eErr, eStatus, eRet, respVars, writeFrame>>

\* src/tools.go:341: what WriteJSON returns is returned; its panic goes on
ErrorJSONReturn ==
  /\ ePc = "writing"
  /\ wPc \in {"returned", "panic"}
  /\ IF wPc = "panic"
       THEN ePc' = "panic" /\ UNCHANGED eRet
       ELSE ePc' = "returned" /\ eRet' = wErr
  /\ UNCHANGED <<eErr, eStatus, respVars, writeVars, writeFrame>>

InitError ==
  /\ eErr \in {NilError} \cup {ErrorOf(x) : x \in ErrorTexts}
  /\ eStatus \in SeqUpTo(StatusCodes, MaxStatusArgs)
  /\ ePc = "called"
  /\ eRet = NoErr
  /\ RespFresh
  /\ WriteIdle
  /\ SlugIdle
  /\ DirIdle
  /\ PushIdle
  /\ ConcIdle /\ DownloadIdle
  /\ ToolsZero
  /\ UploadIdle
  /\ JSONIdle
  /\ RandIdle

NextError ==
  \/ ErrorJSONCall
  \/ WriteJSONSteps
  \/ ErrorJSONReturn

SpecError == InitError /\ [][NextError]_vars


(***************************************************************************)
(* Properties of ErrorJSON.                                                *)
(***************************************************************************)
\* the first two members of the object written as the body: where the key
\* and the value of each start and end
BodyKey1End == StringEnd(respBody, 2)
BodyVal1    == BodyKey1End + 2
BodyVal1End == ValueEnd(respBody, BodyVal1)
BodyKey2    == BodyVal1End + 2
BodyKey2End == StringEnd(respBody, BodyKey2)
BodyVal2    == BodyKey2End + 2
BodyVal2End == ValueEnd(respBody, BodyVal2)

\* the body is an object with "error": true
BodyErrorTrue ==
  /\ respBody # <<>>
  /\ SubSeq(respBody, 3, BodyKey1End - 1) = NameError
  /\ SubSeq(respBody, BodyVal1, BodyVal1End) = TextTrue

\* the body is an object whose second member is "message": m
BodyMessageIs(m) ==
  /\ respBody # <<>>
  /\ SubSeq(respBody, BodyKey2 + 1, BodyKey2End - 1) = NameMessage
  /\ respBody[BodyVal2] = Quote
  /\ UnquoteBytes(SubSeq(respBody, BodyVal2 + 1, BodyVal2End - 1)) = m

ErrorJSONEnded == ePc \in {"returned", "panic"}

ExpectedCode == IF Len(eStatus) > 0 THEN eStatus[1] ELSE 400

\* the text with U+FFFD for every byte that is not valid UTF-8
ToValidUTF8(text) ==
  [i \in DOMAIN text |-> IF text[i] = InvalidByte THEN Replacement ELSE text[i]]

\* C13 as stated: ErrorJSON always writes a response whose body has
\* error = true and message = the text of the error, with the first status
\* supplied, or 400 when none is (a failing write of the body set aside).
C13_AlwaysWritesError ==
  (ErrorJSONEnded /\ (ePc = "returned" => eRet = NoErr)) =>
    /\ ePc = "returned"
    /\ respCode = ExpectedCode
    /\ BodyErrorTrue
    /\ BodyMessageIs(eErr.text)

\* a is the start of b
IsPrefix(a, b) == Len(a) <= Len(b) /\ a = SubSeq(b, 1, Len(a))

\* C13 amended: the call panics, with nothing written, exactly when the
\* error is nil or the status code is not one WriteHeader accepts.
\* Otherwise it sets the content type, writes the first status supplied, or
\* 400, and then either returns the error of a failed write, what was
\* written being a start of the body, or has written a body with
\* error = true and, as message, the text of the error with U+FFFD for
\* every byte that is not valid UTF-8.
C13_WritesErrorUnlessPanic ==
  ErrorJSONEnded =>
    /\ ePc = "panic" <=> (eErr.nil \/ ~ValidCode(ExpectedCode))
    /\ ePc = "panic" => respCode = 0 /\ respBody = <<>>
    /\ ePc = "returned" =>
         /\ respCode = ExpectedCode
         /\ HeaderGet(respHeader, "Content-Type") = MimeJSON
         /\ eRet # NoErr =>
              /\ eRet = ErrWrite
              /\ IsPrefix(respBody,
                          Marshal(JSONResponse(TRUE, eErr.text, "nil")).out)
         /\ eRet = NoErr => BodyErrorTrue /\ BodyMessageIs(ToValidUTF8(eErr.text))

\* C13 witness: two different status codes supplied and a text with a quote
\* in it; the first code and the body are written.
C13_Witness ==
  /\ ePc = "returned"
  /\ eRet = NoErr
  /\ Len(eStatus) = 2 /\ eStatus[1] # eStatus[2]
  /\ respCode = eStatus[1]
  /\ \E i \in DOMAIN eErr.text : eErr.text[i] = Quote
  /\ BodyErrorTrue
  /\ BodyMessageIs(eErr.text)


(***************************************************************************)
(* CreateDirIfNotExist (src/tools.go:202-211) called again and again on    *)
(* one path of a file system.  fs[i] is what is at the first i segments of *)
(* the longest path: "absent", "dir" or "file".                            *)
(***************************************************************************)
MaxDepth    == 4
MaxDirCalls == 4

\* the file systems: directories, then possibly a regular file, then nothing
FileSystems ==
  {f \in [1..MaxDepth -> {"absent", "dir", "file"}] :
     \A i \in 1..(MaxDepth - 1) : f[i] # "dir" => f[i + 1] = "absent"}

\* the first segment of the path of d segments that is no directory; d + 1
\* when all are
FirstNonDir(f, d) ==
  IF \E i \in 1..d : f[i] # "dir"
    THEN CHOOSE i \in 1..d : f[i] # "dir" /\ \A j \in 1..(i - 1) : f[j] = "dir"
    ELSE d + 1

\* os.Stat(path) as os.IsNotExist sees it
Stat(f, d) ==
  LET i == FirstNonDir(f, d)
  IN  IF i > d THEN "dir"
      ELSE IF f[i] = "absent" THEN "absent"
      ELSE IF i = d THEN "file"
      ELSE "notdir"

\* os.MkdirAll(path, mode) when it makes the missing segments before
\* segment stop only (all of them when stop = d + 1)
MkdirAll(f, d, stop) ==
  [i \in 1..MaxDepth |-> IF i <= d /\ i < stop /\ f[i] = "absent" THEN "dir" ELSE f[i]]

\* one call: os.MkdirAll, when it is called, succeeds, or fails at one of
\* the segments it has to make
DirCall ==
  /\ dCalls < MaxDirCalls
  /\ \E stop \in FirstNonDir(fs, dPath)..(dPath + 1) :
       LET r == CreateDirIfNotExist(Stat(fs, dPath), stop = dPath + 1)
       IN  /\ dErr' = r.err
           /\ fs' = IF Stat(fs, dPath) = "absent" THEN MkdirAll(fs, dPath, stop)
                    ELSE fs
  /\ dCalls' = dCalls + 1
  /\ UNCHANGED <<dPath, dirFrame>>

InitDir ==
  /\ fs \in FileSystems
  /\ dPath \in 1..MaxDepth
  /\ dCalls = 0
  /\ dErr = NoErr
  /\ SlugIdle /\ RespFresh /\ WriteIdle /\ ErrorIdle /\ PushIdle /\ ConcIdle /\ DownloadIdle
  /\ ToolsZero
  /\ UploadIdle
  /\ JSONIdle
  /\ RandIdle

NextDir == DirCall

SpecDir == InitDir /\ [][NextDir]_vars

\* the path of the calls exists: something is at its last segment
PathExists == Stat(fs, dPath) \in {"dir", "file"}

\* C14: a call on a path that does not exist makes the path a directory,
\* with its missing parents, and succeeds (a failure of os.MkdirAll set
\* aside: then the call returns its error); a call on a path at which
\* anything exists, a regular file included, succeeds and changes nothing.
C14_Idempotent ==
  [][/\ ~PathExists => (dErr' = NoErr => Stat(fs', dPath) = "dir")
     /\ PathExists => (dErr' = NoErr /\ fs' = fs)]_vars


(***************************************************************************)
(* PushJSONToRemoteService (src/tools.go:345-376).                         *)
(***************************************************************************)
MaxClients == 2

ErrRequest   == "parse uri: invalid"
ErrTransport == "Post: transport failed"
ErrRedirect  == "Post: stopped after redirects"

\* the status codes of the responses of the remote service
RemoteCodes == {200, 500}

\* the deferred calls are not run
RunNoDefers(b) == b

\* src/tools.go:372: defer response.Body.Close(), run when the function
\* returns
RunDefers(b) == "closed"

\* src/tools.go:347-350
PushMarshal ==
  /\ pushPc = "marshal"
  /\ IF pData # "ok"
       THEN pErr' = ErrUnsupported /\ pushPc' = "returned"
       ELSE pushPc' = "client" /\ UNCHANGED pErr
  /\ UNCHANGED <<pData, pURI, pClients, httpClient, response, bodyState,
                 pResp, pCode, pushFrame>>

\* src/tools.go:353-358
PushClient ==
  /\ pushPc = "client"
  /\ httpClient' = IF Len(pClients) > 0 THEN pClients[1] ELSE "default"
  /\ pushPc' = "request"
  /\ UNCHANGED <<pData, pURI, pClients, response, bodyState,
                 pResp, pCode, pErr, pushFrame>>

\* src/tools.go:361-365
PushNewRequest ==
  /\ pushPc = "request"
  /\ IF pURI # "ok"
       THEN pErr' = ErrRequest /\ pushPc' = "returned"
       ELSE pushPc' = "do" /\ UNCHANGED pErr
  /\ UNCHANGED <<pData, pURI, pClients, httpClient, response, bodyState,
                 pResp, pCode, pushFrame>>

\* src/tools.go:368-371: httpClient.Do(request).  On a nil client it is a
\* nil dereference.  It returns a response whose body is open, or an error
\* with no response, or (when the redirect policy fails) an error with a
\* response whose body it has closed.
PushDo ==
  /\ pushPc = "do"
  /\ IF httpClient = "nil"
       THEN pushPc' = "panic" /\ UNCHANGED <<response, bodyState, pErr>>
       ELSE \/ \E c \in RemoteCodes :
                 /\ response' = [StatusCode |-> c]
                 /\ bodyState' = "open"
                 /\ pushPc' = "deferred"
                 /\ UNCHANGED pErr
            \/ /\ pErr' = ErrTransport
               /\ pushPc' = "returned"
               /\ UNCHANGED <<response, bodyState>>
            \/ \E c \in RemoteCodes :
                 /\ response' = [StatusCode |-> c]
                 /\ bodyState' = "closed"
                 /\ pErr' = ErrRedirect
                 /\ pushPc' = "returned"
  /\ UNCHANGED <<pData, pURI, pClients, httpClient, pResp, pCode, pushFrame>>

\* src/tools.go:372-375: the results are set, then the deferred call runs
PushReturn ==
  /\ pushPc = "deferred"
  /\ pResp' = response
  /\ pCode' = response.StatusCode
  /\ bodyState' = RunDefers(bodyState)
  /\ pushPc' = "returned"
  /\ UNCHANGED <<pData, pURI, pClients, httpClient, response, pErr, pushFrame>>

InitPush ==
  /\ pData \in {"ok", "chan"}
  /\ pURI \in {"ok", "bad"}
  /\ pClients \in SeqUpTo({"c1", "c2", "nil"}, MaxClients)
  /\ pushPc = "marshal"
  /\ httpClient = "none"
  /\ response = NilResponse
  /\ bodyState = "none"
  /\ pResp = NilResponse
  /\ pCode = 0
  /\ pErr = NoErr
  /\ SlugIdle /\ RespFresh /\ WriteIdle /\ ErrorIdle /\ DirIdle /\ ConcIdle /\ DownloadIdle
  /\ ToolsZero
  /\ UploadIdle
  /\ JSONIdle
  /\ RandIdle

NextPush ==
  \/ PushMarshal
  \/ PushClient
  \/ PushNewRequest
  \/ PushDo
  \/ PushReturn

SpecPush == InitPush /\ [][NextPush]_vars

\* C15: whenever the call has ended, the body of the response is not open;
\* after a successful POST the response and its status code are returned,
\* the body having been closed by the call itself; after a failure of the
\* serialization, of the construction of the request or of the transport
\* the results are nil, 0 and the error.
C15_BodyClosedOnEveryPath ==
  pushPc \in {"returned", "panic"} =>
    /\ bodyState # "open"
    /\ (pushPc = "returned" /\ pErr = NoErr) =>
         /\ pResp = response /\ pResp # NilResponse
         /\ pCode = response.StatusCode
         /\ bodyState = "closed"
    /\ (pushPc = "returned" /\ pErr # NoErr) => pResp = NilResponse /\ pCode = 0
    /\ pushPc = "panic" => bodyState = "none"

\* C15 witness: a client was supplied, the remote service answered 500, and
\* the call returned that response with its body closed.
C15_Witness ==
  /\ pushPc = "returned"
  /\ pErr = NoErr
  /\ Len(pClients) = 2 /\ httpClient = pClients[1]
  /\ pCode = 500
  /\ bodyState = "closed"


(***************************************************************************)
(* The handles of UploadFiles on both platforms.                           *)
(***************************************************************************)
\* the calls of UploadFiles for which the handles are followed: every form,
\* file types restricted or not, on Windows and off it
InitHandles ==
  /\ MaxFileSize = 0
  /\ AllowedFileTypes \in AllowedChoices
  /\ MaxJSONPayloadSize = 0
  /\ AllowUnknownFields = FALSE
  /\ form \in Forms
  /\ renamePattern = <<>>
  /\ dirState = "dir"
  /\ files = <<>>
  /\ pc = "start"
  /\ parts = <<>>
  /\ done = 0
  /\ parseLimit = 0
  /\ uploadedFiles = <<>>
  /\ err = NoErr
  /\ opened = <<>>
  /\ created = <<>>
  /\ onePc = "called"
  /\ oneFile = NilFile
  /\ oneErr = NoErr
  /\ goos \in {"windows", "linux"}
  /\ closedIn = <<>>
  /\ closedOut = <<>>
  /\ JSONIdle
  /\ RandIdle
  /\ RestIdle

SpecHandles == InitHandles /\ [][Next]_vars

\* C16: when the processing of a part has ended, the source handle of every
\* part opened and the destination file of every part for which one was
\* created have been closed, on Windows and off it.
C16_HandlesClosed ==
  /\ \A i \in DOMAIN opened : \E j \in DOMAIN closedIn : closedIn[j] = opened[i]
  /\ \A i \in DOMAIN created :
       \E j \in DOMAIN closedOut : closedOut[j] = created[i].part


(***************************************************************************)
(* Concurrent calls of UploadFiles and ReadJSON on one Tools value: of     *)
(* each call, the accesses to the fields of Tools, one access per step     *)
(* (src/tools.go:68-79 and 245-257).                                       *)
(***************************************************************************)
MaxProcs == 3

Procs == 1..MaxProcs

\* the default is substituted whatever the field holds
NeedsDefaultAlways(v) == TRUE

\* src/tools.go:69: if t.MaxFileSize == 0
NeedsDefault(v) == v = 0

\* src/tools.go:69: the field is read and compared with 0
ConcCheck(p) ==
  /\ cKind[p] = "upload" /\ cPc[p] = "check"
  /\ cPc' = [cPc EXCEPT ![p] = IF NeedsDefault(MaxFileSize) THEN "write" ELSE "mkdir"]
  /\ UNCHANGED <<toolVars, cKind, cWrote, cParseArg, cMaxBytes, cInitSize,
                 concFrame>>

\* src/tools.go:70: t.MaxFileSize = 1024 * 1024 * 1024
ConcWrite(p) ==
  /\ cKind[p] = "upload" /\ cPc[p] = "write"
  /\ MaxFileSize' = DefaultMaxFileSize
  /\ cWrote' = [cWrote EXCEPT ![p] = TRUE]
  /\ cPc' = [cPc EXCEPT ![p] = "mkdir"]
  /\ UNCHANGED <<AllowedFileTypes, MaxJSONPayloadSize, AllowUnknownFields,
                 cKind, cParseArg, cMaxBytes, cInitSize, concFrame>>

\* src/tools.go:74-77: the directory is there or made, or the call returns
ConcMkdir(p) ==
  /\ cKind[p] = "upload" /\ cPc[p] = "mkdir"
  /\ \E ok \in BOOLEAN : cPc' = [cPc EXCEPT ![p] = IF ok THEN "parse" ELSE "done"]
  /\ UNCHANGED <<toolVars, cKind, cWrote, cParseArg, cMaxBytes, cInitSize,
                 concFrame>>

\* src/tools.go:79: the field is read again, for r.ParseMultipartForm
ConcParse(p) ==
  /\ cKind[p] = "upload" /\ cPc[p] = "parse"
  /\ cParseArg' = [cParseArg EXCEPT ![p] = MaxFileSize]
  /\ cPc' = [cPc EXCEPT ![p] = "done"]
  /\ UNCHANGED <<toolVars, cKind, cWrote, cMaxBytes, cInitSize, concFrame>>

\* src/tools.go:246-249: the local maxBytes of ReadJSON
ConcReadJSON(p) ==
  /\ cKind[p] = "readjson" /\ cPc[p] = "check"
  /\ cMaxBytes' = [cMaxBytes EXCEPT ![p] = MaxBytes(MaxJSONPayloadSize)]
  /\ cPc' = [cPc EXCEPT ![p] = "done"]
  /\ UNCHANGED <<toolVars, cKind, cWrote, cParseArg, cInitSize, concFrame>>

InitConc ==
  /\ MaxFileSize \in {0, SmallLimit}
  /\ AllowedFileTypes \in AllowedChoices
  /\ MaxJSONPayloadSize \in {0, SmallLimit}
  /\ AllowUnknownFields \in BOOLEAN
  /\ cKind \in [Procs -> {"upload", "readjson"}]
  /\ cPc = [p \in Procs |-> "check"]
  /\ cWrote = [p \in Procs |-> FALSE]
  /\ cParseArg = [p \in Procs |-> -1]
  /\ cMaxBytes = [p \in Procs |-> -1]
  /\ cInitSize = MaxFileSize
  /\ SlugIdle /\ RespFresh /\ WriteIdle /\ ErrorIdle /\ DirIdle /\ PushIdle
  /\ DownloadIdle
  /\ UploadIdle
  /\ JSONIdle
  /\ RandIdle

NextConc ==
  \E p \in Procs :
    \/ ConcCheck(p)
    \/ ConcWrite(p)
    \/ ConcMkdir(p)
    \/ ConcParse(p)
    \/ ConcReadJSON(p)

SpecConc == InitConc /\ [][NextConc]_vars

\* C17: in every interleaving, the only write to the configuration sets
\* MaxFileSize from 0 or from 1 GiB to 1 GiB (a MaxFileSize that is not 0 is
\* never changed), the other three fields are never written, every call of
\* UploadFiles that parses does so with the limit 1 GiB when the field
\* started at 0 and with the field's value otherwise, and ReadJSON's
\* default of 1 MiB goes to its local only.
C17_OnlyDefaultWritten ==
  /\ [][/\ UNCHANGED <<AllowedFileTypes, MaxJSONPayloadSize, AllowUnknownFields>>
        /\ MaxFileSize # 0 => MaxFileSize' = MaxFileSize
        /\ MaxFileSize' # MaxFileSize => MaxFileSize' = 1024 * 1024 * 1024]_vars
  /\ [](\A p \in DOMAIN cPc :
          /\ cParseArg[p] # -1 =>
               cParseArg[p] = IF cInitSize = 0 THEN 1024 * 1024 * 1024
                              ELSE cInitSize
          /\ cMaxBytes[p] # -1 =>
               cMaxBytes[p] = IF MaxJSONPayloadSize = 0 THEN 1024 * 1024
                              ELSE MaxJSONPayloadSize)

\* C17 witness: two calls of UploadFiles both found the field 0 and both
\* wrote it, both have parsed with 1 GiB, and a call of ReadJSON has ended
\* with its default while MaxJSONPayloadSize is still 0.
C17_Witness ==
  /\ cInitSize = 0
  /\ \E p, q \in DOMAIN cPc :
       /\ p # q
       /\ cWrote[p] /\ cWrote[q]
       /\ cParseArg[p] = 1024 * 1024 * 1024 /\ cParseArg[q] = 1024 * 1024 * 1024
  /\ \E p \in DOMAIN cPc :
       cKind[p] = "readjson" /\ cMaxBytes[p] = 1024 * 1024
  /\ MaxJSONPayloadSize = 0


(***************************************************************************)
(* WriteJSON: the order of its effects on the response.                    *)
(***************************************************************************)
\* the first header set a caller supplied, or none
FirstSet == IF wHeaders = <<>> THEN NoHeader ELSE Head(wHeaders)

\* the response header holds the entries of the first set and nothing else
OnlyFirstSet ==
  \A k \in HeaderKeys \ {"Content-Type"} : respHeader[k] = FirstSet[k]

\* C18: WriteJSON applies the entries of the first supplied header set only,
\* then sets Content-Type to application/json (over a Content-Type of the
\* caller's set), then writes the status code, then the body: each of these
\* happens only after the one before it; and when serializing the data
\* fails it returns the error and the response has no header, no status and
\* no body.
C18_HeadersStatusBodyInOrder ==
  /\ [](/\ wPc \in {"marshal", "headers"} => RespFresh
        /\ wPc = "contentType" =>
             /\ OnlyFirstSet
             /\ respHeader["Content-Type"] = FirstSet["Content-Type"]
             /\ respCode = 0 /\ respBody = <<>>
        /\ wPc \in {"writeHeader", "write", "panic"} =>
             /\ OnlyFirstSet
             /\ HeaderGet(respHeader, "Content-Type") = "application/json"
        /\ wPc = "writeHeader" => respCode = 0 /\ respBody = <<>>
        /\ wPc = "panic" => respCode = 0 /\ respBody = <<>>
        /\ wPc = "write" => respCode = wStatus /\ respBody = <<>>
        /\ wPc = "returned" =>
             IF Marshal(wData).err # NoErr
               THEN wErr = Marshal(wData).err /\ RespFresh
               ELSE /\ OnlyFirstSet
                    /\ HeaderGet(respHeader, "Content-Type") = "application/json"
                    /\ respCode = wStatus
                    /\ IF wErr = NoErr THEN respBody = Marshal(wData).out
                       ELSE IsPrefix(respBody, Marshal(wData).out))
  /\ [][/\ respHeader' # respHeader => respCode = 0 /\ respBody = <<>>
        /\ respCode' # respCode =>
             /\ HeaderGet(respHeader, "Content-Type") = "application/json"
             /\ respHeader' = respHeader
             /\ respBody = <<>>
        /\ respBody' # respBody =>
             /\ respCode = wStatus /\ respCode' = respCode
             /\ respHeader' = respHeader]_vars

\* C18 witness: a call with two header sets, the first naming Content-Type
\* text/html and the second naming Ice, has returned without error: the
\* response's Content-Type is application/json, it has no Ice entry, its
\* status is the one given and its body is the serialized data.
C18_Witness ==
  /\ wPc = "returned" /\ wErr = NoErr
  /\ Len(wHeaders) = 2
  /\ wHeaders[1]["Content-Type"] = "text/html"
  /\ wHeaders[2]["Ice"] = "CREAM"
  /\ respHeader["Ice"] = ""
  /\ HeaderGet(respHeader, "Content-Type") = "application/json"
  /\ respCode = 200
  /\ respBody = wOut /\ wOut # <<>>


(***************************************************************************)
(* DownloadStaticFile (src/tools.go:230-234): Content-Disposition is set   *)
(* and http.ServeFile writes the rest of the response.  The requests of    *)
(* the model have no query, no Range and no conditional header, the        *)
(* response has no Content-Encoding, and a directory on the disk is empty. *)
(* The body is the bytes of the file, or the texts written one by one.     *)
(***************************************************************************)
\* the string of a sequence of characters
RECURSIVE StringOf(_)
StringOf(cs) == IF cs = <<>> THEN "" ELSE Head(cs) \o StringOf(Tail(cs))

\* strconv.FormatInt(v, 10) of a number that is not negative
RECURSIVE FormatInt(_)
FormatInt(v) ==
  IF v < 10 THEN Digits[v + 1]
  ELSE FormatInt(v \div 10) \o Digits[(v % 10) + 1]

\* fmt.Sprintf("attachment; filename=\"%s\"", displayName)
Disposition(displayName) ==
  "attachment; filename=\"" \o StringOf(displayName) \o "\""

\* the elements of a path between its slashes and backslashes (isSlashRune)
RECURSIVE SplitSlash(_, _)
SplitSlash(v, cur) ==
  IF v = <<>> THEN <<cur>>
  ELSE IF Head(v) \in {"/", "\\"} THEN <<cur>> \o SplitSlash(Tail(v), <<>>)
  ELSE SplitSlash(Tail(v), Append(cur, Head(v)))

\* containsDotDot of net/http
ContainsDotDot(v) ==
  \E i \in DOMAIN SplitSlash(v, <<>>) : SplitSlash(v, <<>>)[i] = <<".", ".">>

\* path.Base: "." for the empty path; else the slashes at the end are
\* taken off and what follows the last slash is the result, "/" when that
\* is empty.  Only "/" separates.
Base(v) ==
  IF v = <<>> THEN <<".">>
  ELSE LET p == TrimRight(v, "/")
           slashes == {i \in DOMAIN p : p[i] = "/"}
           last == IF slashes = {} THEN 0
                   ELSE CHOOSE i \in slashes : \A j \in slashes : j <= i
       IN  IF SubSeq(p, last + 1, Len(p)) = <<>> THEN <<"/">>
           ELSE SubSeq(p, last + 1, Len(p))

\* mime.TypeByExtension with the table built into the package ("" when the
\* extension is not in it; the mime.types files of the system can add to it)
BuiltinType(ext) ==
  CASE ext \in {".jpg", ".jpeg"}   -> "image/jpeg"
    [] ext = ".png"                -> "image/png"
    [] ext = ".gif"                -> "image/gif"
    [] ext = ".avif"               -> "image/avif"
    [] ext = ".webp"               -> "image/webp"
    [] ext = ".svg"                -> "image/svg+xml"
    [] ext = ".pdf"                -> "application/pdf"
    [] ext = ".json"               -> "application/json"
    [] ext = ".wasm"               -> "application/wasm"
    [] ext \in {".htm", ".html"}   -> "text/html; charset=utf-8"
    [] ext = ".css"                -> "text/css; charset=utf-8"
    [] ext \in {".js", ".mjs"}     -> "text/javascript; charset=utf-8"
    [] ext = ".xml"                -> "text/xml; charset=utf-8"
    [] OTHER                       -> ""
TypeByExtension(ext) ==
  IF BuiltinType(StringOf(ext)) # "" THEN BuiltinType(StringOf(ext))
  ELSE BuiltinType(StringOf(ToLower(ext)))

\* a response: header, status code and body
Response(h, code, b) == [header |-> h, code |-> code, body |-> b]

\* serveError, then http.Error: Last-Modified and Content-Length are taken
\* out, the message is written as text after the status code
ServeError(h, msg, code) ==
  Response([h EXCEPT !["Last-Modified"] = "", !["Content-Length"] = "",
                     !["Content-Type"] = "text/plain; charset=utf-8",
                     !["X-Content-Type-Options"] = "nosniff"],
           code, <<msg \o "\n">>)

\* setLastModified: not for the zero time (written "")
SetLastModified(h, modtime) ==
  IF modtime # "" THEN HeaderSet(h, "Last-Modified", modtime) ELSE h

\* localRedirect: status 301 to newPath (the request has no query)
LocalRedirect(h, newPath) ==
  Response(HeaderSet(h, "Location", StringOf(newPath)), 301, <<>>)

\* dirList of a directory without entries
DirList(h, modtime) ==
  Response(HeaderSet(SetLastModified(h, modtime), "Content-Type",
                     "text/html; charset=utf-8"),
           200,
           <<"<!doctype html>\n",
             "<meta name=\"viewport\" content=\"width=device-width\">\n",
             "<pre>\n", "</pre>\n">>)

\* the Content-Type serveContent sends: the one set already, else the one of
\* the extension of the name, else the one sniffed from the first 512 bytes
ServedType(h, name, content) ==
  IF h["Content-Type"] # "" THEN h["Content-Type"]
  ELSE IF TypeByExtension(Ext(name)) # "" THEN TypeByExtension(Ext(name))
  ELSE StringOf(DetectContentType(content))

\* serveContent: Last-Modified, Content-Type, Accept-Ranges, Content-Length,
\* status 200, and the content unless the method is HEAD
ServeContent(h, method, file) ==
  Response([SetLastModified(h, file.modtime) EXCEPT
              !["Content-Type"] = ServedType(h, file.name, file.content),
              !["Accept-Ranges"] = "bytes",
              !["Content-Length"] = FormatInt(Len(file.content))],
           200,
           IF method # "HEAD" THEN file.content ELSE <<>>)

\* toHTTPError
OpenError(kind) ==
  CASE kind = "absent"    -> [msg |-> "404 page not found", code |-> 404]
    [] kind = "forbidden" -> [msg |-> "403 Forbidden", code |-> 403]
    [] OTHER              -> [msg |-> "500 Internal Server Error", code |-> 500]

\* http.ServeFile, and serveFile called with redirect = false: a path with
\* an element .. is refused; a path that ends in /index.html is redirected
\* to ./ before anything is opened; what cannot be opened is an error; a
\* directory is redirected to its name with a slash unless the path ends in
\* one, and is listed then; a file is served
ServeFile(h, url, method, file) ==
  LET indexPage == <<"/", "i", "n", "d", "e", "x", ".", "h", "t", "m", "l">>
  IN  IF ContainsDotDot(url) THEN ServeError(h, "invalid URL path", 400)
      ELSE IF TrimSuffix(url, indexPage) # url
        THEN LocalRedirect(h, <<".", "/">>)
      ELSE IF file.kind \notin {"file", "dir"}
        THEN ServeError(h, OpenError(file.kind).msg, OpenError(file.kind).code)
      ELSE IF file.kind = "dir"
        THEN IF url = <<>> \/ url[Len(url)] # "/"
               THEN LocalRedirect(h, Base(url) \o <<"/">>)
               ELSE DirList(h, file.modtime)
      ELSE ServeContent(h, method, file)

\* src/tools.go:230-234
DownloadStaticFile ==
  /\ dlPc = "called"
  /\ LET h == HeaderSet(respHeader, "Content-Disposition", Disposition(dlDisplay))
         res == ServeFile(h, dlURL, dlMethod, dlTarget)
     IN  /\ respHeader' = res.header
         /\ respCode' = res.code
         /\ respBody' = respBody \o res.body
  /\ dlPc' = "returned"
  /\ UNCHANGED <<dlName, dlDisplay, dlURL, dlMethod, dlTarget, downloadFrame>>

\* the file names and display names given, the paths of the request URL
DownloadNames ==
  { <<"i", ".", "j", "p", "g">>, <<"I", ".", "P", "N", "G">>, <<"d">> }
DisplayNames == { <<"r", ".", "j", "p", "g">>, <<>> }
URLPaths ==
  { <<>>, <<"/">>, <<"/", "a">>, <<"/", ".", ".", "/", "a">>,
    <<"/", "a", "\\", "b">>,
    <<"/", "i", "n", "d", "e", "x", ".", "h", "t", "m", "l">> }

\* the time of modification of what is on the disk ("": the zero time)
ModTimes == {"", "Mon, 02 Jan 2006 15:04:05 GMT"}

\* what the path names: nothing, something that cannot be opened, an empty
\* directory, or a regular file of that name
Targets(name) ==
  {NoTarget, [NoTarget EXCEPT !.kind = "forbidden"]}
    \cup [kind : {"dir"}, name : {name}, content : {<<>>}, modtime : ModTimes]
    \cup [kind : {"file"}, name : {name}, content : Contents, modtime : ModTimes]

InitDownload ==
  /\ dlName \in DownloadNames
  /\ dlDisplay \in DisplayNames
  /\ dlURL \in URLPaths
  /\ dlMethod \in {"GET", "HEAD"}
  /\ dlTarget \in Targets(dlName)
  /\ dlPc = "called"
  /\ RespFresh /\ WriteIdle /\ ErrorIdle
  /\ SlugIdle /\ DirIdle /\ PushIdle /\ ConcIdle
  /\ ToolsZero
  /\ UploadIdle
  /\ JSONIdle
  /\ RandIdle

NextDownload == DownloadStaticFile

SpecDownload == InitDownload /\ [][NextDownload]_vars

====
